---- MODULE Spec2Model ----
(***************************************************************************)
(* Model of the shema derive macro (DoumanAsh/shema): the case converter   *)
(* of src/utils.rs, the schema model and front-end of src/lib.rs, the      *)
(* type mappers and the schema emitters of src/firehose.rs and             *)
(* src/parquet.rs.                                                         *)
(*                                                                         *)
(* Text is modelled as a sequence of tokens (strings).  A table name is a  *)
(* sequence of one-character tokens, because the case converter walks it   *)
(* character by character; a field name is <<"r#", ident>> or <<ident>>.   *)
(***************************************************************************)
EXTENDS Integers, Sequences, FiniteSets, TLC

VARIABLES
    \* ---- to_lower_case_by_sep, run step by step (src/utils.rs)
    input,      \* the &str given to the converter
    chars,      \* the rest of the `chars` iterator
    output,     \* the String being built
    status,     \* the Status enum
    cpc,        \* position in the function: "idle", "first", "loop", "done"
    \* ---- from_struct (src/lib.rs)
    item,       \* the struct declaration handed to the macro: ident, attrs
    schema,     \* the TableSchema being built
    pc,         \* position in from_struct
    code,       \* what from_struct returns: generated sections or a compile error
    sink,       \* the write of an emitter at which the output sink failed, if one did
    \* ---- the program the generated code is part of (tests/derive.rs)
    rpc,        \* position of the program: "idle", "compiled", "rejected", ...
    compiled,   \* what rustc said of the generated code
    records,    \* the batch of record values
    prefix,     \* firehose_s3_path_prefix().to_string() of the first record
    row_group,  \* the row group writer: columns of schema(), columns handed out, batches written
    block,      \* the block of write_to_row_group to run next
    result,     \* what write_to_row_group returned
    \* ---- ENCODE_HIVE_INT96_TIMESTAMP on one value (src/parquet.rs 63-77)
    target,     \* the byte order of the target the generated code is built for
    record,     \* the OffsetDateTime being encoded
    timestamp,  \* the Int96 pushed to `vals`
    \* ---- a schema emitter writing to the caller's sink (io::Write)
    emitter,    \* the emitter that was called
    pending,    \* the writes the emitter has still to make
    ops,        \* the operations the sink has seen, each with its outcome
    returned    \* what the emitter returned

vars == <<input, chars, output, status, cpc, item, schema, pc, code, sink,
          rpc, compiled, records, prefix, row_group, block, result,
          target, record, timestamp, emitter, pending, ops, returned>>
encodeVars == <<target, record, timestamp>>
emitVars == <<emitter, pending, ops, returned>>
caseVars == <<input, chars, output, status, cpc>>
deriveVars == <<item, schema, pc, code, sink>>
runVars == <<rpc, compiled, records, prefix, row_group, block, result>>

\* Option<T>: None, Some(x)
None == <<>>
Some(x) == <<x>>

(***************************************************************************)
(* Bounds of the model.                                                    *)
(***************************************************************************)
\* longest converter input drawn from CaseAlphabet
MaxLen == 4
\* most fields of a struct under Spec
MaxFields == 2
\* most fields of a struct under SpecTypes
MaxTypedFields == 1

(***************************************************************************)
(* Characters.                                                             *)
(***************************************************************************)
UpperChars == <<"A", "B", "C", "D", "E", "F", "G", "H", "I", "J", "K", "L", "M",
                "N", "O", "P", "Q", "R", "S", "T", "U", "V", "W", "X", "Y", "Z">>
LowerChars == <<"a", "b", "c", "d", "e", "f", "g", "h", "i", "j", "k", "l", "m",
                "n", "o", "p", "q", "r", "s", "t", "u", "v", "w", "x", "y", "z">>

\* char::is_uppercase
is_uppercase(ch) == \E i \in DOMAIN UpperChars : UpperChars[i] = ch

\* char::to_lowercase: the characters the iterator yields
to_lowercase(ch) ==
    IF is_uppercase(ch)
    THEN <<LowerChars[CHOOSE i \in DOMAIN UpperChars : UpperChars[i] = ch]>>
    ELSE <<ch>>

\* the separator every caller passes (lib.rs: lower_cased_table_name)
Sep == "_"

(***************************************************************************)
(* to_lower_case_by_sep (src/utils.rs).  The converter's state is the pair *)
(* [output, status].                                                       *)
(***************************************************************************)
\* utils.rs 12-25: the state before the loop, given the first character if any
FirstChar(inp) ==
    IF inp = <<>>
    THEN [output |-> <<>>, status |-> "PrevLower"]
    ELSE IF is_uppercase(Head(inp))
         THEN [output |-> to_lowercase(Head(inp)), status |-> "PrevUpper"]
         ELSE [output |-> <<Head(inp)>>, status |-> "PrevLower"]

\* UpperChar that pushes the character as it is
UpperChar_KeepCase(st, ch, sep) ==
    [output |-> Append(IF st.status = "PrevLower" THEN Append(st.output, sep) ELSE st.output,
                       ch),
     status |-> IF st.status \in {"PrevLower", "PrevSep"} THEN "PrevUpper" ELSE "RepeatUpper"]

\* utils.rs 28-39: one iteration of the loop on an uppercase character
UpperChar(st, ch, sep) ==
    [output |-> (IF st.status = "PrevLower" THEN Append(st.output, sep) ELSE st.output)
                    \o to_lowercase(ch),
     status |-> IF st.status \in {"PrevLower", "PrevSep"} THEN "PrevUpper" ELSE "RepeatUpper"]

\* OtherChar without the split of utils.rs 41-46
OtherChar_NoSplit(st, ch, sep) ==
    [output |-> Append(st.output, ch),
     status |-> IF ch = sep THEN "PrevSep" ELSE "PrevLower"]

\* utils.rs 40-54: one iteration of the loop on any other character
OtherChar(st, ch, sep) ==
    LET out == IF st.status = "RepeatUpper" /\ st.output # <<>>
               THEN Append(Append(SubSeq(st.output, 1, Len(st.output) - 1), sep),
                           st.output[Len(st.output)])
               ELSE st.output
    IN [output |-> Append(out, ch),
        status |-> IF ch = sep THEN "PrevSep" ELSE "PrevLower"]

\* utils.rs 27-55: the body of `for ch in chars`
LoopChar(st, ch, sep) ==
    IF is_uppercase(ch) THEN UpperChar(st, ch, sep) ELSE OtherChar(st, ch, sep)

RECURSIVE LoopChars(_, _, _)
LoopChars(st, rest, sep) ==
    IF rest = <<>> THEN st ELSE LoopChars(LoopChar(st, Head(rest), sep), Tail(rest), sep)

\* utils.rs 2-58: the function as a whole
to_lower_case_by_sep(inp, sep) ==
    LoopChars(FirstChar(inp), IF inp = <<>> THEN <<>> ELSE Tail(inp), sep).output

(***************************************************************************)
(* Inputs of the converter.                                                *)
(***************************************************************************)
CaseAlphabet == {"a", "B", "C", "1", Sep}

RECURSIVE StringsUpTo(_, _)
StringsUpTo(alphabet, n) ==
    IF n = 0 THEN {<<>>}
    ELSE LET shorter == StringsUpTo(alphabet, n - 1)
         IN shorter \cup {Append(s, c) : s \in shorter, c \in alphabet}

ClientID == <<"C", "l", "i", "e", "n", "t", "I", "D">>
client_id == <<"c", "l", "i", "e", "n", "t", "_", "i", "d">>
HTTPServer == <<"H", "T", "T", "P", "S", "e", "r", "v", "e", "r">>
http_server == <<"h", "t", "t", "p", "_", "s", "e", "r", "v", "e", "r">>
AnalyticsEvent == <<"A", "n", "a", "l", "y", "t", "i", "c", "s", "E", "v", "e", "n", "t">>
analytics_event == <<"a", "n", "a", "l", "y", "t", "i", "c", "s", "_", "e", "v", "e", "n", "t">>
already_snake == <<"a", "l", "r", "e", "a", "d", "y", "_", "s", "n", "a", "k", "e">>
IOError == <<"I", "O", "E", "r", "r", "o", "r">>
XCoord == <<"X", "C", "o", "o", "r", "d">>

\* the identifiers the documentation and the tests convert
ExampleInputs == {ClientID, HTTPServer, AnalyticsEvent, already_snake, IOError, XCoord}

CaseInputs == StringsUpTo(CaseAlphabet, MaxLen) \cup ExampleInputs

(***************************************************************************)
(* The converter as a state machine: one action per step of the function.  *)
(***************************************************************************)
CaseIdle ==
    /\ input = <<>> /\ chars = <<>> /\ output = <<>>
    /\ status = "PrevLower" /\ cpc = "idle"

\* a call to_lower_case_by_sep(inp, '_')
CaseInit ==
    /\ input \in CaseInputs
    /\ chars = input
    /\ output = <<>>
    /\ status = "PrevLower"
    /\ cpc = "first"

\* utils.rs 16-25
CaseFirst ==
    /\ cpc = "first"
    /\ output' = FirstChar(chars).output
    /\ status' = FirstChar(chars).status
    /\ chars' = IF chars = <<>> THEN <<>> ELSE Tail(chars)
    /\ cpc' = "loop"
    /\ UNCHANGED <<input, deriveVars, runVars, encodeVars, emitVars>>

\* utils.rs 27-55: one iteration
CaseLoop ==
    /\ cpc = "loop"
    /\ chars # <<>>
    /\ LET st == LoopChar([output |-> output, status |-> status], Head(chars), Sep)
       IN /\ output' = st.output
          /\ status' = st.status
    /\ chars' = Tail(chars)
    /\ UNCHANGED <<input, cpc, deriveVars, runVars, encodeVars, emitVars>>

\* utils.rs 57: the iterator is exhausted, the function returns `output`
CaseReturn ==
    /\ cpc = "loop"
    /\ chars = <<>>
    /\ cpc' = "done"
    /\ UNCHANGED <<input, chars, output, status, deriveVars, runVars, encodeVars, emitVars>>

(***************************************************************************)
(* The schema model (src/lib.rs 110-198).                                  *)
(***************************************************************************)
\* enum FieldType
FieldTypes == {"Byte", "Short", "Integer", "Long", "Float", "Double", "String",
               "Boolean", "TimestampZ", "Array", "Object", "Enum"}

\* enum FieldFlag: Optional = 1 << 0, Index = 1 << 1, FirehoseDateIndex = 1 << 2
Optional == 1
Index == 2
FirehoseDateIndex == 4

\* FieldFlagContainer::set_type_flag: self.0 |= flag (flag is a single bit)
set_type_flag(flags, flag) ==
    IF (flags \div flag) % 2 = 1 THEN flags ELSE flags + flag

\* FieldFlagContainer::is_type_flag: self.0 & flag == flag (flag is a single bit)
is_type_flag(flags, flag) == (flags \div flag) % 2 = 1

\* Field::table_field_name: the name without a leading r#
table_field_name(field) ==
    IF field.name # <<>> /\ Head(field.name) = "r#" THEN Tail(field.name) ELSE field.name

\* TableSchema::lower_cased_table_name
lower_cased_table_name(sch) == to_lower_case_by_sep(sch.name, Sep)

\* TableSchema::index_time_field: the first field that carries FirehoseDateIndex
index_time_field(sch) ==
    LET hits == {i \in DOMAIN sch.fields :
                    is_type_flag(sch.fields[i].typ_flags, FirehoseDateIndex)}
    IN IF hits = {} THEN None
       ELSE Some(sch.fields[CHOOSE i \in hits : \A j \in hits : i <= j])

(***************************************************************************)
(* Results and compile errors.                                             *)
(***************************************************************************)
Ok(v) == [ok |-> TRUE, val |-> v]
Err(e) == [ok |-> FALSE, err |-> e]

\* compile_error: a token stream that holds the error, spanned to `span`
compile_error(span, error) == [kind |-> "compile_error", error |-> error, span |-> span]
SomeError(span, error) == Some(compile_error(span, error))

(***************************************************************************)
(* The syntax the macro is given: types, attributes, fields.               *)
(***************************************************************************)
NoArgs == [kind |-> "none", args |-> <<>>]
Angle(args) == [kind |-> "angle", args |-> args]
Paren == [kind |-> "paren", args |-> <<>>]
ArgType(ident) == [kind |-> "type_path", ident |-> ident]
ArgOther == [kind |-> "other", ident |-> "'a"]

\* syn::Type::Path, by its last segment
TypePath(ident, args) == [kind |-> "path", ident |-> ident, args |-> args]
\* syn::Type::Reference to a type path
TypeRef(ident, args) == [kind |-> "reference", ident |-> ident, args |-> args]
\* syn::Type::Reference to something else, and any other syn::Type
TypeRefOther == [kind |-> "reference_other", ident |-> "[u8]", args |-> NoArgs]
TypeOther == [kind |-> "other", ident |-> "(i32, i32)", args |-> NoArgs]

\* quote!(#field_ty).to_string()
TypeText(ty) ==
    (IF ty.kind \in {"reference", "reference_other"} THEN <<"&">> ELSE <<>>)
    \o <<ty.ident>>
    \o (CASE ty.args.kind = "none" -> <<>>
          [] ty.args.kind = "paren" -> <<"(", ")">>
          [] ty.args.kind = "angle" ->
                <<"<">> \o [i \in DOMAIN ty.args.args |-> ty.args.args[i].ident] \o <<">">>)

MetaPath(ident) == [kind |-> "path", ident |-> ident]
\* name = "text"
MetaStr(ident, text) == [kind |-> "name_value", ident |-> ident, lit |-> "str", text |-> text]
\* name = 1
MetaInt(ident) == [kind |-> "name_value", ident |-> ident, lit |-> "int", text |-> <<"1">>]
\* name = some::expr
MetaExpr(ident) == [kind |-> "name_value", ident |-> ident, lit |-> "none", text |-> <<"expr">>]
\* name(...)
MetaList(ident) == [kind |-> "list", ident |-> ident]

\* #[shema(...)]: the nested metas, or the parse failure of its arguments
ShemaAttr(nested) == [kind |-> "shema", parsed |-> TRUE, nested |-> nested]
ShemaAttrBad == [kind |-> "shema", parsed |-> FALSE, nested |-> <<>>]
\* /// text
DocAttr(text) == [kind |-> "doc", lit |-> "str", text |-> text]
\* #[doc = expr]
DocAttrExpr == [kind |-> "doc", lit |-> "none", text |-> "expr"]
\* any other attribute
OtherAttr == [kind |-> "other"]

(***************************************************************************)
(* extract_type_path_segment, extract_type_path (src/lib.rs 206-264).      *)
(***************************************************************************)
extract_type_path_segment(ident) ==
    IF ident = "bool" THEN Ok("Boolean")
    ELSE IF ident = "i8" THEN Ok("Byte")
    ELSE IF ident = "i16" THEN Ok("Short")
    ELSE IF ident = "i32" THEN Ok("Integer")
    ELSE IF ident = "i64" \/ ident = "isize" THEN Ok("Long")
    ELSE IF ident = "f32" THEN Ok("Float")
    ELSE IF ident = "f64" THEN Ok("Double")
    ELSE IF ident = "OffsetDateTime" THEN Ok("TimestampZ")
    ELSE IF ident = "String" \/ ident = "str" THEN Ok("String")
    ELSE IF ident = "Vec" \/ ident = "HashSet" \/ ident = " BTreeSet" THEN Ok("Array")
    ELSE IF ident = "HashMap" \/ ident = " BTreeMap" THEN Ok("Object")
    ELSE IF ident = "u8" \/ ident = "u16" \/ ident = "u32" \/ ident = "u64" \/ ident = "usize"
         THEN Err(compile_error(<<ident>>, <<"Unsigned integers are not supported">>))
    ELSE Err(compile_error(<<ident>>, <<"Unrecognized type: ", ident>>))

\* Ok: the pair (is_optional, FieldType)
extract_type_path(ty, type_override) ==
    IF type_override # None
    THEN Ok([optional |-> ty.ident = "Option", typ |-> type_override[1]])
    ELSE IF ty.ident = "Option"
    THEN CASE ty.args.kind = "angle" ->
                (CASE Len(ty.args.args) = 0 ->
                        Err(compile_error(<<ty.ident>>, <<"Option without type argument. Fix it">>))
                   [] Len(ty.args.args) = 1 ->
                        IF ty.args.args[1].kind = "type_path"
                        THEN LET seg == extract_type_path_segment(ty.args.args[1].ident)
                             IN IF seg.ok
                                THEN Ok([optional |-> TRUE, typ |-> seg.val])
                                ELSE seg
                        ELSE Err(compile_error(<<ty.ident>>,
                                <<"Option should have type argument, but got something unexpected. Fix it">>))
                   [] OTHER ->
                        Err(compile_error(<<ty.ident>>, <<"Option has too many type arguments. Fix it">>)))
           [] ty.args.kind = "none" ->
                Err(compile_error(<<ty.ident>>, <<"Option without type argument. Fix it">>))
           [] ty.args.kind = "paren" ->
                Err(compile_error(<<ty.ident>>, <<"You got wrong brackets for your Option. Fix it">>))
    ELSE LET seg == extract_type_path_segment(ty.ident)
         IN IF seg.ok THEN Ok([optional |-> FALSE, typ |-> seg.val]) ELSE seg

(***************************************************************************)
(* from_struct, the loop over the fields (src/lib.rs 315-419).             *)
(***************************************************************************)
RECURSIVE TrimStart(_)
TrimStart(s) == IF s # <<>> /\ Head(s) = " " THEN TrimStart(Tail(s)) ELSE s

RECURSIVE TrimEnd(_)
TrimEnd(s) ==
    IF s # <<>> /\ s[Len(s)] = " " THEN TrimEnd(SubSeq(s, 1, Len(s) - 1)) ELSE s

\* str::trim
Trim(s) == TrimEnd(TrimStart(s))

\* String::pop, for its effect on the string
Pop(s) == IF s = <<>> THEN s ELSE SubSeq(s, 1, Len(s) - 1)

\* the locals of one iteration: lib.rs 321-324
FieldLocals ==
    [field_name |-> None, docstring |-> <<>>, typ_flags |-> 0,
     type_override |-> None, error |-> None]

\* lib.rs 347-378: one meta of a #[shema(...)] on a field
FieldMeta(acc, meta) ==
    CASE meta.kind = "path" ->
            IF meta.ident = "json" THEN [acc EXCEPT !.type_override = Some("Object")]
            ELSE IF meta.ident = "enumeration" THEN [acc EXCEPT !.type_override = Some("Enum")]
            ELSE IF meta.ident = "index"
                 THEN [acc EXCEPT !.typ_flags = set_type_flag(@, Index)]
            ELSE IF meta.ident = "firehose_date_index"
                 THEN [acc EXCEPT !.typ_flags = set_type_flag(@, FirehoseDateIndex)]
            ELSE [acc EXCEPT !.error = SomeError(<<meta.ident>>,
                    <<"Unexpected path attribute specified for '{ATTR_NAME}'. Allowed: json, enumeration, index">>)]
      [] meta.kind = "name_value" ->
            IF meta.ident = "rename"
            THEN IF meta.lit # "str"
                 THEN [acc EXCEPT !.error =
                          SomeError(meta.text, <<"'rename' should be literal string">>)]
                 ELSE IF Trim(meta.text) = <<>>
                 THEN [acc EXCEPT !.error =
                          SomeError(meta.text, <<"'rename' requires non-empty string">>)]
                 ELSE [acc EXCEPT !.field_name = Some(Trim(meta.text))]
            ELSE [acc EXCEPT !.error = SomeError(<<meta.ident>>,
                    <<"Unexpected name value attribute specified for '{ATTR_NAME}'. Allowed: rename">>)]
      [] OTHER ->
            [acc EXCEPT !.error = SomeError(<<meta.ident>>,
                    <<"Unexpected value provided to 'shema'">>)]

\* lib.rs 345-379: `for meta in nested`, left at the first error
RECURSIVE FieldMetas(_, _)
FieldMetas(acc, nested) ==
    IF nested = <<>> \/ acc.error # None THEN acc
    ELSE FieldMetas(FieldMeta(acc, Head(nested)), Tail(nested))

\* lib.rs 327-382: one attribute of a field
FieldAttr(acc, attr) ==
    CASE attr.kind = "doc" ->
            IF attr.lit = "str"
            THEN [acc EXCEPT !.docstring = @ \o <<attr.text, " ">>]
            ELSE [acc EXCEPT !.error =
                     SomeError(<<attr.text>>, <<"Docstring should be literal string">>)]
      [] attr.kind = "shema" ->
            IF attr.parsed
            THEN FieldMetas(acc, attr.nested)
            ELSE [acc EXCEPT !.error =
                     SomeError(<<"shema">>, <<"'shema' attribute input is not valid">>)]
      [] OTHER -> acc

\* lib.rs 326-383: `for attr in field.attrs.iter()`, left at the first error
RECURSIVE FieldAttrs(_, _)
FieldAttrs(acc, attrs) ==
    IF attrs = <<>> \/ acc.error # None THEN acc
    ELSE FieldAttrs(FieldAttr(acc, Head(attrs)), Tail(attrs))

\* lib.rs 388-401: the declared type, resolved
ResolveType(ty, type_override) ==
    IF ty.kind \in {"path", "reference"}
    THEN extract_type_path(ty, type_override)
    ELSE Err(compile_error(TypeText(ty), <<"Field type should be type path">>))

\* DateIndexCheck that tests the Index flag in place of FirehoseDateIndex
DateIndexCheck_WrongFlag(typ_flags, typ) ==
    is_type_flag(typ_flags, Index) /\ typ # "TimestampZ"

\* lib.rs 407-409: the date index must be a timestamp
DateIndexCheck(typ_flags, typ) ==
    is_type_flag(typ_flags, FirehoseDateIndex) /\ typ # "TimestampZ"

\* lib.rs 315-419: one iteration of `for field in payload.fields.iter()`:
\* Ok(the Field pushed) or Err(the compile error from_struct returns)
ParseField(decl) ==
    IF decl.ident = None
    THEN Err(compile_error(TypeText(decl.ty), <<"Field is missing name">>))
    ELSE LET acc == FieldAttrs(FieldLocals, decl.attrs)
             resolved == ResolveType(decl.ty, acc.type_override)
             typ_flags == IF resolved.val.optional
                          THEN set_type_flag(acc.typ_flags, Optional)
                          ELSE acc.typ_flags
         IN IF acc.error # None THEN Err(acc.error[1])
            ELSE IF ~resolved.ok THEN resolved
            ELSE IF DateIndexCheck(typ_flags, resolved.val.typ)
            THEN Err(compile_error(TypeText(decl.ty),
                    <<"Firehose date index should be timestamp but got ", resolved.val.typ>>))
            ELSE Ok([name |-> IF acc.field_name # None THEN acc.field_name[1] ELSE decl.ident[1],
                     typ |-> resolved.val.typ,
                     original_name |-> decl.ident[1],
                     original_type |-> TypeText(decl.ty),
                     typ_flags |-> typ_flags,
                     docstring |-> Pop(acc.docstring)])

(***************************************************************************)
(* from_struct, the struct's own attributes (src/lib.rs 267-313).          *)
(***************************************************************************)
NoOutputs ==
    [firehose_schema |-> FALSE, firehose_parquet_schema |-> FALSE,
     firehose_partition_code |-> FALSE, parquet_code |-> FALSE]

OutputIdents == {"firehose_schema", "firehose_parquet_schema",
                 "firehose_partition_code", "parquet_code"}

\* lib.rs 290-308: one meta of a #[shema(...)] on the struct
StructMeta(acc, meta) ==
    IF meta.kind = "path"
    THEN IF meta.ident \in OutputIdents
         THEN [acc EXCEPT !.outputs = [@ EXCEPT ![meta.ident] = TRUE]]
         ELSE [acc EXCEPT !.error =
                  SomeError(<<meta.ident>>, <<"Unknown attribute passed to shema">>)]
    ELSE [acc EXCEPT !.error =
             SomeError(<<meta.ident>>, <<"Unknown attribute passed to shema: ", meta.kind>>)]

RECURSIVE StructMetas(_, _)
StructMetas(acc, nested) ==
    IF nested = <<>> \/ acc.error # None THEN acc
    ELSE StructMetas(StructMeta(acc, Head(nested)), Tail(nested))

\* lib.rs 279-312: one attribute of the struct
StructAttr(acc, attr) ==
    IF attr.kind = "shema"
    THEN IF attr.parsed
         THEN StructMetas(acc, attr.nested)
         ELSE [acc EXCEPT !.error = SomeError(<<"shema">>, <<"shema input is not valid">>)]
    ELSE acc

\* lib.rs 278-313: `for attr in attributes.iter()`, left at the first error
RECURSIVE StructAttrs(_, _)
StructAttrs(acc, attrs) ==
    IF attrs = <<>> \/ acc.error # None THEN acc
    ELSE StructAttrs(StructAttr(acc, Head(attrs)), Tail(attrs))

(***************************************************************************)
(* The type mappers (src/firehose.rs 6-24, src/parquet.rs 6-27).           *)
(***************************************************************************)
\* aws_glue_type with every small integer mapped to int
aws_glue_type_IntFamily(typ) ==
    CASE typ \in {"Byte", "Short", "Integer"} -> "int"
      [] typ = "Long" -> "bigint"
      [] typ = "Float" -> "float"
      [] typ = "Double" -> "double"
      [] typ = "String" -> "string"
      [] typ = "Boolean" -> "boolean"
      [] typ = "TimestampZ" -> "timestamp"
      [] typ \in {"Array", "Object", "Enum"} -> "string"

\* FieldType::aws_glue_type
aws_glue_type(typ) ==
    CASE typ = "Byte" -> "tinyint"
      [] typ = "Short" -> "smallint"
      [] typ = "Integer" -> "int"
      [] typ = "Long" -> "bigint"
      [] typ = "Float" -> "float"
      [] typ = "Double" -> "double"
      [] typ = "String" -> "string"
      [] typ = "Boolean" -> "boolean"
      [] typ = "TimestampZ" -> "timestamp"
      [] typ \in {"Array", "Object", "Enum"} -> "string"

\* is_aws_firehose_parquet_utf8_converted without Enum
is_aws_firehose_parquet_utf8_converted_NoEnum(typ) ==
    typ \in {"String", "Array", "Object"}

\* FieldType::is_aws_firehose_parquet_utf8_converted
is_aws_firehose_parquet_utf8_converted(typ) ==
    typ \in {"String", "Array", "Object", "Enum"}

\* FieldType::aws_firehose_parquet
aws_firehose_parquet(typ) ==
    CASE typ \in {"Byte", "Short", "Integer"} -> "INT32"
      [] typ = "Long" -> "INT64"
      [] typ = "Float" -> "FLOAT"
      [] typ = "Double" -> "DOUBLE"
      [] typ = "String" -> "BYTE_ARRAY"
      [] typ = "Boolean" -> "BOOLEAN"
      [] typ = "TimestampZ" -> "INT96"
      [] typ \in {"Array", "Object", "Enum"} -> "BYTE_ARRAY"

(***************************************************************************)
(* generate_firehose_schema (src/firehose.rs 32-100).                      *)
(***************************************************************************)
\* struct FirehoseType
FirehoseType(name, typ, comment, mapping) ==
    [name |-> name, typ |-> typ, comment |-> comment, mapping |-> mapping]

\* firehose.rs 50-54
EmptyFirehoseSchema(sch) ==
    [name |-> lower_cased_table_name(sch), partition_keys |-> <<>>, columns |-> <<>>]

\* firehose.rs 56-77: year, month, day of the date index field
PushDateKeys(out_schema, time_field) ==
    IF time_field = None THEN out_schema
    ELSE LET name == table_field_name(time_field[1])
             comment == <<"Extracted from '">> \o name \o <<"'">>
         IN [out_schema EXCEPT !.partition_keys = @ \o
               <<FirehoseType(<<"year">>, <<"string">>, comment,
                              Some(<<"(.">> \o name \o <<"|split(\"-\")[0])">>)),
                 FirehoseType(<<"month">>, <<"string">>, comment,
                              Some(<<"(.">> \o name \o <<"|split(\"-\")[1])">>)),
                 FirehoseType(<<"day">>, <<"string">>, comment,
                              Some(<<"(.">> \o name \o <<"|split(\"-\")[2]|split(\"T\")[0])">>))>>]

\* PushField with the test of firehose.rs 89 cut to its first half
PushField_IndexOnly(out_schema, field) ==
    LET name == table_field_name(field)
        firehose_field == FirehoseType(name, <<aws_glue_type(field.typ)>>,
                                       field.docstring, None)
    IN IF is_type_flag(field.typ_flags, Index)
       THEN [out_schema EXCEPT !.partition_keys =
                Append(@, [firehose_field EXCEPT !.mapping = Some(<<".">> \o name)])]
       ELSE [out_schema EXCEPT !.columns = Append(@, firehose_field)]

\* firehose.rs 80-95: one iteration of the loop over the fields
PushField(out_schema, field) ==
    LET name == table_field_name(field)
        firehose_field == FirehoseType(name, <<aws_glue_type(field.typ)>>,
                                       field.docstring, None)
    IN IF /\ is_type_flag(field.typ_flags, Index)
          /\ ~is_type_flag(field.typ_flags, FirehoseDateIndex)
       THEN [out_schema EXCEPT !.partition_keys =
                Append(@, [firehose_field EXCEPT !.mapping = Some(<<".">> \o name)])]
       ELSE [out_schema EXCEPT !.columns = Append(@, firehose_field)]

\* firehose.rs 79-96
RECURSIVE PushFields(_, _)
PushFields(out_schema, fields) ==
    IF fields = <<>> THEN out_schema
    ELSE PushFields(PushField(out_schema, Head(fields)), Tail(fields))

\* serde's Serialize of FirehoseType: `typ` is renamed `type`, a None mapping is skipped
SerializeType(t) ==
    IF t.mapping = None
    THEN [name |-> t.name, type |-> t.typ, comment |-> t.comment]
    ELSE [name |-> t.name, type |-> t.typ, comment |-> t.comment, mapping |-> t.mapping[1]]

\* serde_json::to_writer_pretty of FirehoseSchema: the JSON document
to_writer_pretty(out_schema) ==
    [name |-> out_schema.name,
     partition_keys |-> [i \in DOMAIN out_schema.partition_keys |->
                            SerializeType(out_schema.partition_keys[i])],
     columns |-> [i \in DOMAIN out_schema.columns |->
                     SerializeType(out_schema.columns[i])]]

\* generate_firehose_schema with the date keys pushed after the loop over the fields
generate_firehose_schema_DateLast(sch, time_field) ==
    to_writer_pretty(PushDateKeys(PushFields(EmptyFirehoseSchema(sch), sch.fields),
                                  time_field))

\* firehose.rs 49-100, writing to a sink that does not fail
generate_firehose_schema(sch, time_field) ==
    to_writer_pretty(PushFields(PushDateKeys(EmptyFirehoseSchema(sch), time_field),
                                sch.fields))

(***************************************************************************)
(* generate_parquet_schema (src/parquet.rs 29-56).                         *)
(***************************************************************************)
\* parquet.rs 4
PARQUET_TAB == "  "

\* Repetition that writes OPTIONAL for every field, as Hive does
Repetition_AllOptional(field) == "OPTIONAL "

\* parquet.rs 40-45
Repetition(field) ==
    IF is_type_flag(field.typ_flags, Optional) THEN "OPTIONAL " ELSE "REQUIRED "

\* parquet.rs 33-51: what one iteration writes
ParquetLine(field) ==
    IF /\ is_type_flag(field.typ_flags, Index)
       /\ ~is_type_flag(field.typ_flags, FirehoseDateIndex)
    THEN <<>>
    ELSE <<PARQUET_TAB, Repetition(field), aws_firehose_parquet(field.typ), " ">>
         \o table_field_name(field)
         \o (IF is_aws_firehose_parquet_utf8_converted(field.typ)
             THEN <<" (UTF8)">> ELSE <<>>)
         \o <<";\n">>

\* parquet.rs 32-52
RECURSIVE ParquetLines(_)
ParquetLines(fields) ==
    IF fields = <<>> THEN <<>>
    ELSE ParquetLine(Head(fields)) \o ParquetLines(Tail(fields))

\* parquet.rs 29-56, writing to a sink that does not fail
generate_parquet_schema(sch) ==
    <<"message ">> \o lower_cased_table_name(sch) \o <<" {\n">>
    \o ParquetLines(sch.fields)
    \o <<"}">>

(***************************************************************************)
(* generate_firehose_partition_accessor (src/firehose.rs 102-189).  The    *)
(* text is kept as the sequence of the writes that produce it, each with   *)
(* the source line of its write!; delimiters are tokens of their own.      *)
(***************************************************************************)
\* lib.rs 108
TAB == "    "

\* one write!/writeln! to `out`
Write(line, text) == [line |-> line, text |-> text]

\* what a loop over the fields writes for a partition key, by the line of its write!
KeyText(line, field, idx) ==
    CASE line = 112 -> <<"&'_int ">> \o field.original_type \o <<",">>
      [] line = 125 -> <<"&self.">> \o field.name \o <<",">>
      [] line = 138 -> field.original_type \o <<",">>
      [] line = 148 -> <<"self.">> \o field.name \o <<".clone()", ",">>
      [] line = 166 -> table_field_name(field) \o <<"=", "{">> \o table_field_name(field)
                       \o <<"}", "/">>
      [] line = 177 -> table_field_name(field) \o <<"=", "self.0.", ToString(idx), ",">>

\* KeyWrites with the test of the loops cut to its first half
RECURSIVE KeyWrites_IndexOnly(_, _, _)
KeyWrites_IndexOnly(line, fields, idx) ==
    IF fields = <<>> THEN <<>>
    ELSE IF is_type_flag(Head(fields).typ_flags, Index)
         THEN <<Write(line, KeyText(line, Head(fields), idx))>>
              \o KeyWrites_IndexOnly(line, Tail(fields), idx + 1)
         ELSE KeyWrites_IndexOnly(line, Tail(fields), idx)

\* firehose.rs 110-114, 123-127, 136-140, 146-150, 164-168, 175-180
RECURSIVE KeyWrites(_, _, _)
KeyWrites(line, fields, idx) ==
    IF fields = <<>> THEN <<>>
    ELSE IF /\ is_type_flag(Head(fields).typ_flags, Index)
            /\ ~is_type_flag(Head(fields).typ_flags, FirehoseDateIndex)
         THEN <<Write(line, KeyText(line, Head(fields), idx))>>
              \o KeyWrites(line, Tail(fields), idx + 1)
         ELSE KeyWrites(line, Tail(fields), idx)

RECURSIVE Texts(_)
Texts(writes) == IF writes = <<>> THEN <<>> ELSE Head(writes).text \o Texts(Tail(writes))

\* firehose.rs 105-115
reference_type(sch, time_field) ==
    <<"(">>
    \o (IF time_field # None THEN <<"i32", ",", "u8", ",", "u8", ",">> ELSE <<>>)
    \o Texts(KeyWrites(112, sch.fields, 0))
    \o <<")">>

\* firehose.rs 121 and 144
DateTupleText(time_field) ==
    <<"self.">> \o time_field.name \o <<".year()", ", ">>
    \o <<"self.">> \o time_field.name \o <<".month() as _", ", ">>
    \o <<"self.">> \o time_field.name \o <<".day()", ",">>

\* firehose.rs 117-129
partition_keys_ref(sch, time_field) ==
    <<Write(117, <<TAB, "///Returns tuple with reference to all partition keys", "\n">>),
      Write(118, <<TAB, "pub fn ", "partition_keys_ref", "<'_int>", "(", "&'_int self", ")", " -> ">>
                 \o reference_type(sch, time_field) \o <<" ", "{", "\n">>),
      Write(119, <<TAB, TAB, "(">>)>>
    \o (IF time_field # None THEN <<Write(121, DateTupleText(time_field[1]))>> ELSE <<>>)
    \o KeyWrites(125, sch.fields, 0)
    \o <<Write(128, <<")", "\n">>),
         Write(129, <<TAB, "}", "\n", "\n">>)>>

\* firehose.rs 131-152
partition_keys(sch, time_field) ==
    <<Write(131, <<TAB, "///Returns owned tuple with reference to all partition keys", "\n">>),
      Write(132, <<TAB, "pub fn ", "partition_keys", "(", "&self", ")", " -> ", "(">>)>>
    \o (IF time_field # None
        THEN <<Write(134, <<"i32", ",", "u8", ",", "u8", ",">>)>> ELSE <<>>)
    \o KeyWrites(138, sch.fields, 0)
    \o <<Write(141, <<")", " ", "{", "\n">>),
         Write(142, <<TAB, TAB, "(">>)>>
    \o (IF time_field # None THEN <<Write(144, DateTupleText(time_field[1]))>> ELSE <<>>)
    \o KeyWrites(148, sch.fields, 0)
    \o <<Write(151, <<")", "\n">>),
         Write(152, <<TAB, "}", "\n", "\n">>)>>

\* firehose.rs 154-186
firehose_s3_path_prefix(sch, time_field) ==
    <<Write(154, <<TAB, "///Returns fmt::Display that can be used to write partitioned path prefix for s3 destination", "\n">>),
      Write(155, <<TAB, "pub fn ", "firehose_s3_path_prefix", "(", "&self", ")",
                   " -> impl core::fmt::Display + '_ ", "{", "\n">>),
      Write(157, <<TAB, TAB, "pub struct DisplayImpl<'_int>", "(">>
                 \o reference_type(sch, time_field) \o <<")", ";", "\n">>),
      Write(158, <<TAB, TAB, "impl core::fmt::Display for DisplayImpl<'_> ", "{", "\n">>),
      Write(159, <<TAB, TAB, TAB, "fn fmt", "(", "&self, fmt: &mut core::fmt::Formatter<'_>", ")",
                   " -> core::fmt::Result ", "{", "\n">>),
      Write(160, <<TAB, TAB, TAB, TAB, "fmt.write_fmt", "(", "format_args!", "(", "\"">>)>>
    \o (IF time_field # None
        THEN <<Write(162, <<"year", "=", "{year:04}", "/", "month", "=", "{month:02}", "/",
                            "day", "=", "{day:02}", "/">>)>>
        ELSE <<>>)
    \o KeyWrites(166, sch.fields, 0)
    \o <<Write(169, <<"\"", ",">>)>>
    \o (IF time_field # None
        THEN <<Write(172, <<"year", "=", "self.0.", "0", ", ",
                            "month", "=", "self.0.", "1", " as u8", ", ",
                            "day", "=", "self.0.", "2", ",">>)>>
        ELSE <<>>)
    \o KeyWrites(177, sch.fields, 3)
    \o <<Write(181, <<")", ")", "\n">>),
         Write(183, <<TAB, TAB, TAB, "}", "\n", "\n">>),
         Write(184, <<TAB, TAB, "}", "\n", "\n">>),
         Write(185, <<TAB, TAB, "DisplayImpl", "(", "self.partition_keys_ref()", ")", "\n", "\n">>),
         Write(186, <<TAB, "}", "\n", "\n">>)>>

\* firehose.rs 102-189, writing to a sink that does not fail
generate_firehose_partition_accessor(sch, time_field) ==
    partition_keys_ref(sch, time_field)
    \o partition_keys(sch, time_field)
    \o firehose_s3_path_prefix(sch, time_field)

(***************************************************************************)
(* The Parquet writer code (src/parquet.rs 58-307).  The generated text is *)
(* a fixed template for each case; the model keeps which template was      *)
(* written (by the source line of its format string) and what was put in   *)
(* its holes.                                                              *)
(***************************************************************************)
\* parquet.rs 79-84: how the block computes definition_levels
DefinitionLevels(field) ==
    IF is_type_flag(field.typ_flags, Optional)
    THEN [template |-> 80, field_name |-> field.original_name]
    ELSE [template |-> 83, field_name |-> <<>>]

\* parquet.rs 86-208: the format string that computes `vals`, and the writer variant
ValsTemplate(field) ==
    LET optional == is_type_flag(field.typ_flags, Optional)
    IN CASE field.typ = "Boolean" -> IF optional THEN 89 ELSE 93
         [] field.typ \in {"Byte", "Short", "Integer"} -> IF optional THEN 102 ELSE 105
         [] field.typ = "Long" -> IF optional THEN 114 ELSE 117
         [] field.typ = "Float" -> IF optional THEN 126 ELSE 129
         [] field.typ = "Double" -> IF optional THEN 138 ELSE 141
         [] field.typ = "String" -> IF optional THEN 150 ELSE 153
         [] field.typ = "TimestampZ" -> IF optional THEN 162 ELSE 171
         [] field.typ \in {"Array", "Object", "Enum"} -> IF optional THEN 185 ELSE 196

\* every block expecting the variant of INT32
ColumnWriterOf_Int32(field) == "Int32ColumnWriter"

ColumnWriterOf(field) ==
    CASE field.typ = "Boolean" -> "BoolColumnWriter"
      [] field.typ \in {"Byte", "Short", "Integer"} -> "Int32ColumnWriter"
      [] field.typ = "Long" -> "Int64ColumnWriter"
      [] field.typ = "Float" -> "FloatColumnWriter"
      [] field.typ = "Double" -> "DoubleColumnWriter"
      [] field.typ = "String" -> "ByteArrayColumnWriter"
      [] field.typ = "TimestampZ" -> "Int96ColumnWriter"
      [] field.typ \in {"Array", "Object", "Enum"} -> "ByteArrayColumnWriter"

\* impl Display for ParquetFieldWriter: parquet.rs 60-217
ParquetFieldWriter(field) ==
    [definition_levels |-> DefinitionLevels(field),
     vals |-> [template |-> ValsTemplate(field), field_name |-> field.original_name],
     column_writer |-> ColumnWriterOf(field),
     \* the holes of the type-mismatch message, parquet.rs 214-215
     field_name |-> field.original_name,
     field_type |-> field.typ]

LOGICAL_NONE == "None"
LOGICAL_STRING == "Some(::parquet::basic::LogicalType::String)"

\* parquet.rs 227-240
LogicalAndPhysical(typ) ==
    CASE typ = "Byte" -> <<"Some(::parquet::basic::LogicalType::Integer { bit_width: 8, is_signed: true })", "INT32">>
      [] typ = "Short" -> <<"Some(::parquet::basic::LogicalType::Integer { bit_width: 16, is_signed: true })", "INT32">>
      [] typ = "Integer" -> <<"Some(::parquet::basic::LogicalType::Integer { bit_width: 32, is_signed: true })", "INT32">>
      [] typ = "Long" -> <<"Some(::parquet::basic::LogicalType::Integer { bit_width: 64, is_signed: true })", "INT64">>
      [] typ = "Float" -> <<LOGICAL_NONE, "FLOAT">>
      [] typ = "Double" -> <<LOGICAL_NONE, "DOUBLE">>
      [] typ = "String" -> <<LOGICAL_STRING, "BYTE_ARRAY">>
      [] typ = "Boolean" -> <<LOGICAL_NONE, "BOOLEAN">>
      [] typ = "TimestampZ" -> <<LOGICAL_NONE, "INT96">>
      [] typ \in {"Array", "Object", "Enum"} -> <<LOGICAL_STRING, "BYTE_ARRAY">>

\* impl Display for ParquetFieldSchema: parquet.rs 221-251, the holes of
\* primitive_type_builder(name, physical).with_logical_type(..).with_repetition(..)
ParquetFieldSchema(field) ==
    [name |-> table_field_name(field),
     physical_type |-> LogicalAndPhysical(field.typ)[2],
     logical_type |-> LogicalAndPhysical(field.typ)[1],
     repetition |-> IF is_type_flag(field.typ_flags, Optional)
                    THEN "::parquet::basic::Repetition::OPTIONAL"
                    ELSE "::parquet::basic::Repetition::REQUIRED"]

\* parquet.rs 268-283: the blocks of write_to_row_group
RECURSIVE WriterBlocks(_)
WriterBlocks(fields) ==
    IF fields = <<>> THEN <<>>
    ELSE IF /\ is_type_flag(Head(fields).typ_flags, Index)
            /\ ~is_type_flag(Head(fields).typ_flags, FirehoseDateIndex)
         THEN WriterBlocks(Tail(fields))
         ELSE <<[field_name |-> table_field_name(Head(fields)),
                 writer |-> ParquetFieldWriter(Head(fields))]>>
              \o WriterBlocks(Tail(fields))

\* parquet.rs 296-302: the fields.push(...) of schema()
RECURSIVE SchemaPushes(_)
SchemaPushes(fields) ==
    IF fields = <<>> THEN <<>>
    ELSE IF /\ is_type_flag(Head(fields).typ_flags, Index)
            /\ ~is_type_flag(Head(fields).typ_flags, FirehoseDateIndex)
         THEN SchemaPushes(Tail(fields))
         ELSE <<ParquetFieldSchema(Head(fields))>> \o SchemaPushes(Tail(fields))

\* parquet.rs 253-307, writing to a sink that does not fail
generate_parquet_writer_interface_code(sch) ==
    [write_to_row_group |-> WriterBlocks(sch.fields),
     schema |-> [name |-> lower_cased_table_name(sch), fields |-> SchemaPushes(sch.fields)]]

(***************************************************************************)
(* from_struct, the generation (src/lib.rs 421-475): the sections of the   *)
(* generated code.                                                         *)
(***************************************************************************)
GeneratedCode(sch) ==
    [kind |-> "impl",
     SHEMA_TABLE_NAME |-> lower_cased_table_name(sch),
     SHEMA_FIREHOSE_SCHEMA |->
        IF (sch.outputs.firehose_schema \/ sch.outputs.firehose_partition_code)
           /\ sch.outputs.firehose_schema
        THEN Some(generate_firehose_schema(sch, index_time_field(sch)))
        ELSE None,
     firehose_partition_accessor |->
        IF (sch.outputs.firehose_schema \/ sch.outputs.firehose_partition_code)
           /\ sch.outputs.firehose_partition_code
        THEN Some(generate_firehose_partition_accessor(sch, index_time_field(sch)))
        ELSE None,
     SHEMA_FIREHOSE_PARQUET_SCHEMA |->
        IF sch.outputs.firehose_parquet_schema
        THEN Some(generate_parquet_schema(sch))
        ELSE None,
     RecordWriter |->
        IF sch.outputs.parquet_code
        THEN Some(generate_parquet_writer_interface_code(sch))
        ELSE None]

(***************************************************************************)
(* The declarations the macro is run on.                                   *)
(***************************************************************************)
\* the identifier and the doc comments of the i-th field
FieldIdents == << <<"r#", "client_id">>, <<"client_time">>, <<"name">>, <<"extras">> >>
FieldIdent(i) == FieldIdents[((i - 1) % Len(FieldIdents)) + 1]
FieldDocs(i) ==
    IF i = 1 THEN <<DocAttr("Index key will go into firehose's partition_keys")>>
    ELSE <<>>

Decl(i, ty, nested) ==
    [ident |-> Some(FieldIdent(i)),
     attrs |-> FieldDocs(i) \o (IF nested = <<>> THEN <<>> ELSE <<ShemaAttr(nested)>>),
     ty |-> ty]

\* the metas of `order` that are in `chosen`, in that order
MetasOf(order, chosen) == SelectSeq(order, LAMBDA m : m \in chosen)
MetaLists(order) == {MetasOf(order, chosen) : chosen \in SUBSET {order[i] : i \in DOMAIN order}}

\* ---- Spec: few types, every combination of index, firehose_date_index and rename
OrderingTypes ==
    {TypePath("String", NoArgs),
     TypePath("Option", Angle(<<ArgType("String")>>)),
     TypePath("OffsetDateTime", NoArgs)}

OrderingMetas ==
    <<MetaPath("index"), MetaPath("firehose_date_index"), MetaStr("rename", <<"client_id">>)>>

OrderingDecls(i) ==
    {Decl(i, ty, nested) : ty \in OrderingTypes, nested \in MetaLists(OrderingMetas)}

\* ---- SpecTypes: every type the front-end tells apart
PlainIdents == {"bool", "i8", "i16", "i32", "i64", "isize", "f32", "f64",
                "OffsetDateTime", "String", "str",
                "u8", "u16", "u32", "u64", "usize", "Struct"}
CollectionIdents == {"Vec", "HashSet", "BTreeSet", "HashMap", "BTreeMap"}

DeclaredTypes ==
    {TypePath(id, NoArgs) : id \in PlainIdents}
    \cup {TypePath(id, Angle(<<ArgType("String")>>)) : id \in CollectionIdents}
    \cup {TypePath("Option", Angle(<<ArgType(id)>>)) : id \in PlainIdents \cup CollectionIdents}
    \cup {TypeRef("str", NoArgs)}

FlagMetas == <<MetaPath("index"), MetaPath("firehose_date_index")>>

\* json and enumeration, alone and together (the last one wins)
OverrideLists ==
    {<<MetaPath("json")>>, <<MetaPath("enumeration")>>,
     <<MetaPath("json"), MetaPath("enumeration")>>,
     <<MetaPath("enumeration"), MetaPath("json")>>}

OverriddenTypes ==
    {TypePath("Struct", NoArgs), TypePath("Option", Angle(<<ArgType("Struct")>>)),
     TypePath("OffsetDateTime", NoArgs), TypePath("u8", NoArgs)}

\* declarations the front-end rejects for their form
MalformedDecls(i) ==
    {Decl(i, ty, <<>>) :
        ty \in {TypePath("Option", NoArgs), TypePath("Option", Angle(<<>>)),
                TypePath("Option", Angle(<<ArgType("i8"), ArgType("i8")>>)),
                TypePath("Option", Angle(<<ArgOther>>)), TypePath("Option", Paren),
                TypeRefOther, TypeOther}}
    \cup {Decl(i, TypePath("String", NoArgs), <<m>>) :
            m \in {MetaPath("bogus"), MetaStr("rename", <<" ">>), MetaInt("rename"),
                   MetaExpr("rename"), MetaStr("alias", <<"x">>), MetaList("index")}}
    \cup {[ident |-> None, attrs |-> <<>>, ty |-> TypePath("String", NoArgs)],
          [ident |-> Some(FieldIdent(i)), attrs |-> <<ShemaAttrBad>>, ty |-> TypePath("String", NoArgs)],
          [ident |-> Some(FieldIdent(i)), attrs |-> <<DocAttrExpr>>, ty |-> TypePath("String", NoArgs)],
          [ident |-> Some(FieldIdent(i)), attrs |-> <<OtherAttr, DocAttr("a"), DocAttr("b")>>,
           ty |-> TypePath("String", NoArgs)],
          Decl(i, TypePath("String", NoArgs), <<MetaStr("rename", <<" ", "stroka", " ">>)>>)}

TypedDecls(i) ==
    {Decl(i, ty, nested) : ty \in DeclaredTypes, nested \in MetaLists(FlagMetas)}
    \cup {Decl(i, ty, over \o flags) :
            ty \in OverriddenTypes, over \in OverrideLists, flags \in MetaLists(FlagMetas)}
    \cup MalformedDecls(i)

\* the struct: its identifier and its #[shema(...)] attribute
StructMetaOrder ==
    <<MetaPath("firehose_schema"), MetaPath("firehose_parquet_schema"),
      MetaPath("firehose_partition_code"), MetaPath("parquet_code")>>

StructAttrLists(nestedLists) ==
    {IF nested = <<>> THEN <<OtherAttr>> ELSE <<OtherAttr, ShemaAttr(nested)>> :
        nested \in nestedLists}

Item(ident, attrs) == [ident |-> ident, attrs |-> attrs]

OrderingItems ==
    {Item(AnalyticsEvent, attrs) :
        attrs \in StructAttrLists(MetaLists(StructMetaOrder))
                  \cup {<<ShemaAttr(<<MetaPath("firehose_schema"), MetaPath("bogus")>>)>>}}
    \cup {Item(HTTPServer, <<ShemaAttr(StructMetaOrder)>>)}

TypedItems ==
    {Item(AnalyticsEvent, attrs) :
        attrs \in StructAttrLists({StructMetaOrder, <<>>})
                  \cup {<<ShemaAttr(<<MetaStr("firehose_schema", <<"x">>)>>)>>, <<ShemaAttrBad>>}}

(***************************************************************************)
(* from_struct as a state machine.                                         *)
(***************************************************************************)
\* nothing returned yet
NoCode == [kind |-> "none"]

\* lib.rs 267-276
DeriveInit(items) ==
    /\ item \in items
    /\ schema = [name |-> item.ident, fields |-> <<>>, outputs |-> NoOutputs]
    /\ pc = "attrs"
    /\ code = NoCode
    /\ sink = None

\* lib.rs 278-313
ParseStructAttrs ==
    /\ pc = "attrs"
    /\ LET acc == StructAttrs([outputs |-> schema.outputs, error |-> None], item.attrs)
       IN /\ schema' = [schema EXCEPT !.outputs = acc.outputs]
          /\ IF acc.error # None
             THEN pc' = "error" /\ code' = acc.error[1]
             ELSE pc' = "fields" /\ code' = code
    /\ UNCHANGED <<item, sink, caseVars, encodeVars, emitVars, runVars>>

\* lib.rs 315-419: one iteration of the loop over payload.fields, on `decl`
FieldStep(decl) ==
    LET parsed == ParseField(decl)
    IN IF parsed.ok
       THEN /\ schema' = [schema EXCEPT !.fields = Append(@, parsed.val)]
            /\ UNCHANGED <<pc, code>>
       ELSE /\ pc' = "error"
            /\ code' = parsed.err
            /\ UNCHANGED schema

\* the next field of the payload, under Spec
ParseOrderingField ==
    /\ pc = "fields"
    /\ Len(schema.fields) < MaxFields
    /\ \E decl \in OrderingDecls(Len(schema.fields) + 1) : FieldStep(decl)
    /\ UNCHANGED <<item, sink, caseVars, encodeVars, emitVars, runVars>>

\* the next field of the payload, under SpecTypes
ParseTypedField ==
    /\ pc = "fields"
    /\ Len(schema.fields) < MaxTypedFields
    /\ \E decl \in TypedDecls(Len(schema.fields) + 1) : FieldStep(decl)
    /\ UNCHANGED <<item, sink, caseVars, encodeVars, emitVars, runVars>>

\* lib.rs 421-475: the payload has no further field
Generate ==
    /\ pc = "fields"
    /\ code' = GeneratedCode(schema)
    /\ pc' = "done"
    /\ UNCHANGED <<item, schema, sink, caseVars, encodeVars, emitVars, runVars>>

\* no row group writer yet
NoRowGroup == [columns |-> <<>>, next |-> 0, written |-> <<>>]

\* the generated code is not compiled into a program
RunIdle ==
    /\ rpc = "idle" /\ compiled = None /\ records = <<>> /\ prefix = None
    /\ row_group = NoRowGroup /\ block = 0 /\ result = None

\* no timestamp is being encoded
EncodeIdle == target = "little" /\ record = None /\ timestamp = None

\* no emitter was called on a sink
EmitIdle == emitter = None /\ pending = <<>> /\ ops = <<>> /\ returned = None

Init == CaseIdle /\ DeriveInit(OrderingItems) /\ RunIdle /\ EncodeIdle /\ EmitIdle
Next == ParseStructAttrs \/ ParseOrderingField \/ Generate
Spec == Init /\ [][Next]_vars

InitTypes == CaseIdle /\ DeriveInit(TypedItems) /\ RunIdle /\ EncodeIdle /\ EmitIdle
NextTypes == ParseStructAttrs \/ ParseTypedField \/ Generate
SpecTypes == InitTypes /\ [][NextTypes]_vars

DeriveIdle ==
    /\ item = None /\ schema = None /\ pc = "idle" /\ code = NoCode /\ sink = None

InitCase == CaseInit /\ DeriveIdle /\ RunIdle /\ EncodeIdle /\ EmitIdle
NextCase == CaseFirst \/ CaseLoop \/ CaseReturn
SpecCase == InitCase /\ [][NextCase]_vars


(***************************************************************************)
(* Reading the generated sections back: the vocabulary of the properties.  *)
(***************************************************************************)
\* the field carries the flag
Carries(field, flag) == (field.typ_flags \div flag) % 2 = 1

\* the field is a Firehose partition key: Index without FirehoseDateIndex
KeyOnly(field) == Carries(field, Index) /\ ~Carries(field, FirehoseDateIndex)
Payload(field) == ~KeyOnly(field)

KeyFields == SelectSeq(schema.fields, KeyOnly)
PayloadFields == SelectSeq(schema.fields, Payload)
DateFields == SelectSeq(schema.fields, LAMBDA f : Carries(f, FirehoseDateIndex))

NamesOf(fields) == [i \in DOMAIN fields |-> table_field_name(fields[i])]

Generated == pc = "done" /\ code.kind = "impl"
HasFirehoseSchema == Generated /\ code.SHEMA_FIREHOSE_SCHEMA # None
HasParquetSchema == Generated /\ code.SHEMA_FIREHOSE_PARQUET_SCHEMA # None

\* the JSON document and its two arrays
FirehoseJson == code.SHEMA_FIREHOSE_SCHEMA[1]
PartitionKeys == FirehoseJson.partition_keys
Columns == FirehoseJson.columns
EntryNames(entries) == [i \in DOMAIN entries |-> entries[i].name]

\* the synthetic keys are the first three entries when a date index field exists
DateKeyNames == << <<"year">>, <<"month">>, <<"day">> >>
SyntheticKeys == IF DateFields = <<>> THEN <<>> ELSE DateKeyNames
FieldKeys == SubSeq(PartitionKeys, Len(SyntheticKeys) + 1, Len(PartitionKeys))

\* the DDL text, split into its header, its lines and its closing brace
Ddl == code.SHEMA_FIREHOSE_PARQUET_SCHEMA[1]
DdlOpen == CHOOSE i \in DOMAIN Ddl : Ddl[i] = " {\n"
DdlMessageName == SubSeq(Ddl, 2, DdlOpen - 1)
DdlBody == SubSeq(Ddl, DdlOpen + 1, Len(Ddl) - 1)

\* the runs of tokens that end with ";\n", without that token
RECURSIVE SplitLines(_, _)
SplitLines(tokens, line) ==
    IF tokens = <<>> THEN (IF line = <<>> THEN <<>> ELSE <<line>>)
    ELSE IF Head(tokens) = ";\n" THEN <<line>> \o SplitLines(Tail(tokens), <<>>)
    ELSE SplitLines(Tail(tokens), Append(line, Head(tokens)))

\* `  <REPETITION> <PHYSICAL> <name>[ (UTF8)]`
ReadLine(line) ==
    LET utf8 == line[Len(line)] = " (UTF8)"
    IN [indent |-> line[1], repetition |-> line[2], physical |-> line[3],
        space |-> line[4],
        name |-> SubSeq(line, 5, Len(line) - (IF utf8 THEN 1 ELSE 0)),
        utf8 |-> utf8]

DdlLines == LET lines == SplitLines(DdlBody, <<>>)
            IN [i \in DOMAIN lines |-> ReadLine(lines[i])]
DdlColumnNames == [i \in DOMAIN DdlLines |-> DdlLines[i].name]

InSeq(x, s) == \E i \in DOMAIN s : s[i] = x

(***************************************************************************)
(* C1..C3: the Firehose schema JSON.                                       *)
(***************************************************************************)
\* C1: the partition_keys array is year, month, day (exactly when a field carries
\* FirehoseDateIndex), followed by the fields that carry Index and not
\* FirehoseDateIndex, in declaration order.
C1_PartitionKeyOrder ==
    HasFirehoseSchema =>
        /\ EntryNames(PartitionKeys) = SyntheticKeys \o NamesOf(KeyFields)
        /\ \A k \in 1..Len(SyntheticKeys) : PartitionKeys[k].type = <<"string">>

\* a key declared before the date index field still comes after year, month, day
C1_Witness ==
    /\ HasFirehoseSchema
    /\ Len(schema.fields) = 2
    /\ KeyOnly(schema.fields[1])
    /\ Carries(schema.fields[2], FirehoseDateIndex)
    /\ EntryNames(PartitionKeys) = DateKeyNames \o << <<"client_id">> >>

\* C2: the name of every Index, non-date field is in partition_keys with the
\* mapping .<name> and is the name of no column of the Parquet DDL.
C2_NameAbsentFromDdl ==
    (HasFirehoseSchema /\ HasParquetSchema) =>
        \A i \in DOMAIN schema.fields :
            KeyOnly(schema.fields[i]) =>
                LET name == table_field_name(schema.fields[i])
                IN /\ \E k \in DOMAIN PartitionKeys :
                        /\ PartitionKeys[k].name = name
                        /\ "mapping" \in DOMAIN PartitionKeys[k]
                        /\ PartitionKeys[k].mapping = <<".">> \o name
                   /\ ~InSeq(name, DdlColumnNames)

\* C3: the columns array holds the fields that are not partition keys, in
\* declaration order and without a mapping; the date index field is one of them;
\* every field is in exactly one of the two arrays.
C3_ColumnsArePayload ==
    HasFirehoseSchema =>
        /\ EntryNames(Columns) = NamesOf(PayloadFields)
        /\ \A k \in DOMAIN Columns : "mapping" \notin DOMAIN Columns[k]
        /\ \A i \in DOMAIN DateFields :
              \E k \in DOMAIN Columns :
                  /\ Columns[k].name = table_field_name(DateFields[i])
                  /\ DOMAIN Columns[k] = {"name", "type", "comment"}
        /\ EntryNames(FieldKeys) = NamesOf(KeyFields)
        /\ Len(FieldKeys) + Len(Columns) = Len(schema.fields)

\* a date index field that also carries Index is a column
C3_Witness ==
    /\ HasFirehoseSchema
    /\ \E i \in DOMAIN schema.fields :
          /\ Carries(schema.fields[i], Index)
          /\ Carries(schema.fields[i], FirehoseDateIndex)
          /\ InSeq(table_field_name(schema.fields[i]), EntryNames(Columns))
    /\ Len(KeyFields) = 1

\* C7: a struct with two FirehoseDateIndex fields is rejected: no generated impl
\* comes from a schema with more than one such field.
C7_AtMostOneDateIndex ==
    Generated => Len(DateFields) <= 1

(***************************************************************************)
(* C4, C5, C6: the type tables and the date index check.                   *)
(***************************************************************************)
PhysicalTable(t) ==
        CASE t \in {"Byte", "Short", "Integer"} -> "INT32"
          [] t = "Long" -> "INT64"
          [] t = "Float" -> "FLOAT"
          [] t = "Double" -> "DOUBLE"
          [] t = "Boolean" -> "BOOLEAN"
          [] t = "TimestampZ" -> "INT96"
          [] t \in {"String", "Array", "Object", "Enum"} -> "BYTE_ARRAY"

Utf8Types == {"String", "Array", "Object", "Enum"}

GlueTable(t) ==
        CASE t = "Byte" -> "tinyint"
          [] t = "Short" -> "smallint"
          [] t = "Integer" -> "int"
          [] t = "Long" -> "bigint"
          [] t = "Float" -> "float"
          [] t = "Double" -> "double"
          [] t = "Boolean" -> "boolean"
          [] t = "TimestampZ" -> "timestamp"
          [] t \in {"String", "Array", "Object", "Enum"} -> "string"

\* C4: the DDL line of a field has the physical type of the table, and the
\* (UTF8) annotation exactly when the field is String, Array, Object or Enum.
C4_PhysicalTypes ==
    HasParquetSchema =>
        LET lines == DdlLines
            payload == PayloadFields
        IN /\ Len(lines) = Len(payload)
           /\ \A k \in DOMAIN lines :
                 /\ lines[k].physical = PhysicalTable(payload[k].typ)
                 /\ lines[k].utf8 <=> payload[k].typ \in Utf8Types
                 /\ lines[k].utf8 => lines[k].physical = "BYTE_ARRAY"

\* an Enum column: BYTE_ARRAY with the annotation
C4_Witness ==
    /\ HasParquetSchema
    /\ Len(DdlLines) = 1
    /\ PayloadFields[1].typ = "Enum"
    /\ DdlLines[1].physical = "BYTE_ARRAY"
    /\ DdlLines[1].utf8

\* the entry of every field, in declaration order, whichever array holds it
RECURSIVE FieldEntries(_, _, _)
FieldEntries(fields, keys, columns) ==
    IF fields = <<>> THEN <<>>
    ELSE IF KeyOnly(Head(fields))
         THEN <<Head(keys)>> \o FieldEntries(Tail(fields), Tail(keys), columns)
         ELSE <<Head(columns)>> \o FieldEntries(Tail(fields), keys, Tail(columns))

\* C5: the type of a field's entry in the Firehose JSON is the Glue type of the
\* table, and every FieldType has one.
C5_GlueTypes ==
    /\ \A t \in FieldTypes : aws_glue_type(t) = GlueTable(t)
    /\ HasFirehoseSchema =>
          /\ Len(FieldKeys) + Len(Columns) = Len(schema.fields)
          /\ LET entries == FieldEntries(schema.fields, FieldKeys, Columns)
             IN \A i \in DOMAIN schema.fields :
                   entries[i].type = <<GlueTable(schema.fields[i].typ)>>

\* a Byte field is a tinyint
C5_Witness ==
    /\ HasFirehoseSchema
    /\ Len(schema.fields) = 1
    /\ schema.fields[1].typ = "Byte"
    /\ Columns[1].type = <<"tinyint">>

\* the declaration asks for the date index
AsksDateIndex(decl) ==
    \E a \in DOMAIN decl.attrs :
        /\ decl.attrs[a].kind = "shema"
        /\ decl.attrs[a].parsed
        /\ InSeq(MetaPath("firehose_date_index"), decl.attrs[a].nested)

\* the declaration is well formed and its type, after json or enumeration, is `typ`
ResolvesTo(decl, typ) ==
    LET acc == FieldAttrs(FieldLocals, decl.attrs)
        resolved == ResolveType(decl.ty, acc.type_override)
    IN /\ decl.ident # None
       /\ acc.error = None
       /\ resolved.ok
       /\ resolved.val.typ = typ

DateIndexMessage == "Firehose date index should be timestamp but got "

\* C6: a FirehoseDateIndex field whose type, after any override, is not
\* TimestampZ is a model error: the field never enters the schema, the macro
\* returns the error and generates nothing.
C6_DateIndexIsTimestamp ==
    /\ \A i \in DOMAIN schema.fields :
          Carries(schema.fields[i], FirehoseDateIndex) => schema.fields[i].typ = "TimestampZ"
    /\ pc = "error" => code.kind = "compile_error"
    /\ (pc = "fields" /\ Len(schema.fields) < MaxTypedFields) =>
          \A decl \in TypedDecls(Len(schema.fields) + 1) :
              \A typ \in FieldTypes \ {"TimestampZ"} :
                  (AsksDateIndex(decl) /\ ResolvesTo(decl, typ)) =>
                      /\ ~ParseField(decl).ok
                      /\ ParseField(decl).err.kind = "compile_error"
                      /\ ParseField(decl).err.error = <<DateIndexMessage, typ>>

\* json on an OffsetDateTime date index: lib.rs 407 sees Object
C6_Witness ==
    /\ pc = "error"
    /\ code.kind = "compile_error"
    /\ code.error = <<DateIndexMessage, "Object">>
    /\ schema.fields = <<>>

(***************************************************************************)
(* C8, C9: the case converter.                                             *)
(***************************************************************************)
Returned == cpc = "done"

HasUppercase(s) == \E i \in DOMAIN s : is_uppercase(s[i])

\* C8: ClientID gives client_id, HTTPServer gives http_server, AnalyticsEvent
\* gives analytics_event, and an input without an uppercase character is
\* returned unchanged.
C8_ConversionExamples ==
    Returned =>
        /\ input = ClientID => output = client_id
        /\ input = HTTPServer => output = http_server
        /\ input = AnalyticsEvent => output = analytics_event
        /\ ~HasUppercase(input) => output = input

\* the run HTTPS is split before its last letter
C8_Witness ==
    /\ Returned
    /\ input = HTTPServer
    /\ output = http_server

\* C9: converting the converter's output again returns it unchanged.
C9_Idempotent ==
    Returned =>
        /\ output = to_lower_case_by_sep(input, Sep)
        /\ to_lower_case_by_sep(output, Sep) = output

\* an input the converter changes, with a run of uppercase before a lowercase
C9_Witness ==
    /\ Returned
    /\ input = <<"B", "C", "a", "B">>
    /\ output = <<"b", "_", "c", "a", "_", "b">>

(***************************************************************************)
(* C10: the Parquet DDL.                                                   *)
(***************************************************************************)
PhysicalNames == {"INT32", "INT64", "FLOAT", "DOUBLE", "BOOLEAN", "INT96", "BYTE_ARRAY"}

\* C10: the DDL is `message <converted table name> {`, then one line
\* `  <REPETITION> <PHYSICAL> <name>[ (UTF8)];` for each field that is not a
\* partition key, in declaration order, then `}`; REPETITION is OPTIONAL exactly
\* when the field carries Optional and REQUIRED otherwise.
C10_DdlLines ==
    HasParquetSchema =>
        /\ Ddl[1] = "message "
        /\ DdlMessageName = to_lower_case_by_sep(item.ident, Sep)
        /\ Ddl[Len(Ddl)] = "}"
        /\ DdlBody = <<>> \/ DdlBody[Len(DdlBody)] = ";\n"
        /\ LET lines == DdlLines
               payload == PayloadFields
           IN /\ [k \in DOMAIN lines |-> lines[k].name] = NamesOf(payload)
              /\ \A k \in DOMAIN lines :
                    /\ lines[k].indent = "  "
                    /\ lines[k].repetition =
                          (IF Carries(payload[k], Optional) THEN "OPTIONAL " ELSE "REQUIRED ")
                    /\ lines[k].physical \in PhysicalNames
                    /\ lines[k].space = " "

\* a REQUIRED line then an OPTIONAL one, under a converted table name
C10_Witness ==
    /\ HasParquetSchema
    /\ item.ident = AnalyticsEvent
    /\ DdlMessageName = analytics_event
    /\ Len(DdlLines) = 2
    /\ DdlLines[1].repetition = "REQUIRED "
    /\ DdlLines[2].repetition = "OPTIONAL "
    /\ Len(schema.fields) = 2
(***************************************************************************)
(* Reading the partition accessors back.                                   *)
(***************************************************************************)
HasPartitionCode == Generated /\ code.firehose_partition_accessor # None
Accessor == code.firehose_partition_accessor[1]

\* the text written from the given source lines, in the order it was written
RECURSIVE TextOf(_, _)
TextOf(writes, lines) ==
    IF writes = <<>> THEN <<>>
    ELSE (IF Head(writes).line \in lines THEN Head(writes).text ELSE <<>>)
         \o TextOf(Tail(writes), lines)

\* the runs of tokens that end with one of `seps`, without it
RECURSIVE SplitAt(_, _, _)
SplitAt(tokens, seps, run) ==
    IF tokens = <<>> THEN (IF run = <<>> THEN <<>> ELSE <<run>>)
    ELSE IF Head(tokens) \in seps THEN <<run>> \o SplitAt(Tail(tokens), seps, <<>>)
    ELSE SplitAt(Tail(tokens), seps, Append(run, Head(tokens)))

Commas == {",", ", "}
StripRaw(name) == IF name # <<>> /\ Head(name) = "r#" THEN Tail(name) ELSE name

\* the elements of the tuple a method returns, and of its return type
RefElements == SplitAt(TextOf(Accessor, {121, 125}), Commas, <<>>)
OwnedElements == SplitAt(TextOf(Accessor, {144, 148}), Commas, <<>>)
OwnedTypes == SplitAt(TextOf(Accessor, {134, 138}), Commas, <<>>)

\* the segments `key={placeholder}` of the format string and its named arguments
Segments == SplitAt(TextOf(Accessor, {162, 166}), {"/"}, <<>>)
FormatArgs == SplitAt(TextOf(Accessor, {172, 177}), Commas, <<>>)

\* the record field an element reads
ElementIdent(expr) ==
    IF expr[Len(expr)] \in {".year()", ".month() as _", ".day()", ".clone()"}
    THEN SubSeq(expr, 2, Len(expr) - 1)
    ELSE Tail(expr)

\* the partition key an element stands for
ElementKey(expr) ==
    CASE expr[Len(expr)] = ".year()" -> <<"year">>
      [] expr[Len(expr)] = ".month() as _" -> <<"month">>
      [] expr[Len(expr)] = ".day()" -> <<"day">>
      [] OTHER -> StripRaw(ElementIdent(expr))

\* `key=...`: the tokens before the first "="
KeyOf(seg) == SubSeq(seg, 1, (CHOOSE i \in DOMAIN seg : seg[i] = "=" /\ \A j \in 1..(i - 1) : seg[j] # "=") - 1)

KeysOf(elems) == [i \in DOMAIN elems |-> ElementKey(elems[i])]
SegmentKeys(segs) == [i \in DOMAIN segs |-> KeyOf(segs[i])]

\* the partition_keys array generate_firehose_schema writes for the same TableSchema
SchemaPartitionKeys ==
    EntryNames(generate_firehose_schema(schema, index_time_field(schema)).partition_keys)

\* C11: partition_keys_ref, partition_keys and the segments of the path prefix
\* list the partition keys in the order of the partition_keys array of the
\* ingestion schema: year, month, day of the date index field, then the Index
\* fields without FirehoseDateIndex in declaration order; the date index field
\* adds no element of its own.
C11_AccessorOrder ==
    HasPartitionCode =>
        /\ SchemaPartitionKeys = SyntheticKeys \o NamesOf(KeyFields)
        /\ KeysOf(RefElements) = SchemaPartitionKeys
        /\ KeysOf(OwnedElements) = SchemaPartitionKeys
        /\ SegmentKeys(Segments) = SchemaPartitionKeys
        /\ SegmentKeys(FormatArgs) = SchemaPartitionKeys
        /\ Len(OwnedTypes) = Len(SchemaPartitionKeys)

\* a key declared before the date index field
C11_Witness ==
    /\ HasPartitionCode
    /\ Len(schema.fields) = 2
    /\ KeyOnly(schema.fields[1])
    /\ Carries(schema.fields[2], FirehoseDateIndex)
    /\ KeysOf(RefElements) = DateKeyNames \o << <<"client_id">> >>
    /\ SegmentKeys(Segments) = DateKeyNames \o << <<"client_id">> >>

\* the number after `self.0.` in a named argument of the format string
Digits == <<"0", "1", "2", "3", "4", "5", "6", "7", "8", "9">>
ParseIndex(token) == (CHOOSE d \in DOMAIN Digits : Digits[d] = token) - 1
PositionOf(arg) ==
    ParseIndex(arg[(CHOOSE i \in DOMAIN arg : arg[i] = "self.0.") + 1])

\* C12: without a date index field, year, month and day are in none of the three
\* operations, the tuple has one element for each indexed field, and the i-th
\* positional reference of the formatter, counted from 0, is self.0.<i>, an
\* element of the tuple.
C12_PositionsWithoutDate ==
    (HasPartitionCode /\ DateFields = <<>>) =>
        /\ KeysOf(RefElements) = NamesOf(KeyFields)
        /\ KeysOf(OwnedElements) = NamesOf(KeyFields)
        /\ SegmentKeys(Segments) = NamesOf(KeyFields)
        /\ Len(FormatArgs) = Len(KeyFields)
        /\ \A i \in DOMAIN FormatArgs :
              /\ PositionOf(FormatArgs[i]) < Len(RefElements)
              /\ PositionOf(FormatArgs[i]) = i - 1

\* the methods the generated impl defines
MethodNames ==
    LET text == TextOf(Accessor, 1..200)
    IN {text[i + 1] : i \in {j \in 1..(Len(text) - 1) : text[j] = "pub fn "}}

\* C14: with firehose_partition_code the generated impl defines
\* is_firehose_s3_path_prefix_valid.
C14_ValidityMethodDefined ==
    HasPartitionCode => "is_firehose_s3_path_prefix_valid" \in MethodNames

(***************************************************************************)
(* Reading the writer code back.                                           *)
(***************************************************************************)
HasWriterCode == Generated /\ code.RecordWriter # None
WriterBlocksOf == code.RecordWriter[1].write_to_row_group
SchemaFn == code.RecordWriter[1].schema

OriginalNamesOf(fields) == [i \in DOMAIN fields |-> fields[i].original_name]
IdentsOf(elems) == [i \in DOMAIN elems |-> ElementIdent(elems[i])]

\* the identifiers the tuple elements should read: the date index field three
\* times (year, month, day), then the partition keys
AccessorReads ==
    (IF DateFields = <<>> THEN <<>>
     ELSE LET date == DateFields[1].original_name IN <<date, date, date>>)
    \o OriginalNamesOf(KeyFields)

\* C15: every expression of the accessor code and of the writer code that reads
\* a field of the record uses the identifier the field was declared with, also
\* when the field is renamed, while the names of the ingestion JSON, of the DDL
\* and of the path prefix are the names after rename.
C15_ReadsByOriginalName ==
    /\ HasPartitionCode =>
          /\ IdentsOf(RefElements) = AccessorReads
          /\ IdentsOf(OwnedElements) = AccessorReads
          /\ SegmentKeys(Segments) = SyntheticKeys \o NamesOf(KeyFields)
    /\ HasWriterCode =>
          /\ Len(WriterBlocksOf) = Len(PayloadFields)
          /\ \A k \in DOMAIN WriterBlocksOf :
                LET w == WriterBlocksOf[k].writer
                IN /\ w.vals.field_name = PayloadFields[k].original_name
                   /\ w.definition_levels.template = 80 =>
                         w.definition_levels.field_name = PayloadFields[k].original_name
    /\ HasFirehoseSchema =>
          /\ EntryNames(FieldKeys) = NamesOf(KeyFields)
          /\ EntryNames(Columns) = NamesOf(PayloadFields)
    /\ HasParquetSchema => DdlColumnNames = NamesOf(PayloadFields)

\* `OPTIONAL ` of the DDL and Repetition::OPTIONAL of the builder
SameRepetition(ddl, builder) ==
    \/ ddl = "OPTIONAL " /\ builder = "::parquet::basic::Repetition::OPTIONAL"
    \/ ddl = "REQUIRED " /\ builder = "::parquet::basic::Repetition::REQUIRED"

\* C16: schema() of the generated writer is the schema of the DDL: the same
\* message name, the same columns in the same order, and for each column the
\* same name, physical type, repetition and annotation, none where the DDL has
\* none.
C16_SchemaFnIsDdl ==
    (HasWriterCode /\ HasParquetSchema) =>
        LET lines == DdlLines
            pushed == SchemaFn.fields
        IN /\ SchemaFn.name = DdlMessageName
           /\ Len(pushed) = Len(lines)
           /\ \A k \in DOMAIN lines :
                 /\ pushed[k].name = lines[k].name
                 /\ pushed[k].physical_type = lines[k].physical
                 /\ SameRepetition(lines[k].repetition, pushed[k].repetition)
                 /\ lines[k].utf8 => pushed[k].logical_type = LOGICAL_STRING
                 /\ ~lines[k].utf8 => pushed[k].logical_type = LOGICAL_NONE

\* C19: a field declared with one of std's collections and no annotation is
\* accepted: Vec, HashSet and BTreeSet are Array, HashMap and BTreeMap are
\* Object.
C19_StdCollections ==
    (pc = "fields" /\ Len(schema.fields) < MaxTypedFields) =>
        \A decl \in TypedDecls(Len(schema.fields) + 1) :
            (/\ decl.ident # None
             /\ decl.ty.kind = "path"
             /\ decl.ty.args.kind = "angle"
             /\ FieldAttrs(FieldLocals, decl.attrs).error = None
             /\ FieldAttrs(FieldLocals, decl.attrs).type_override = None
             /\ ~AsksDateIndex(decl)) =>
                /\ decl.ty.ident \in {"Vec", "HashSet", "BTreeSet"} =>
                      ParseField(decl).ok /\ ParseField(decl).val.typ = "Array"
                /\ decl.ty.ident \in {"HashMap", "BTreeMap"} =>
                      ParseField(decl).ok /\ ParseField(decl).val.typ = "Object"

(***************************************************************************)
(* The program the generated code is compiled into (tests/derive.rs): the  *)
(* struct, record values of it, and the generated methods run on them.     *)
(***************************************************************************)
\* most fields of a struct under SpecRun and SpecSink
MaxRunFields == 2
\* most records of a batch
MaxRecords == 2

\* ---- SpecRun: the kinds of field of the struct of tests/derive.rs
RunDecls(i) ==
    {Decl(i, TypePath("String", NoArgs), nested) :
        nested \in {<<>>, <<MetaPath("index")>>,
                    <<MetaPath("index"), MetaStr("rename", <<"client_id">>)>>}}
    \cup {Decl(i, TypePath("OffsetDateTime", NoArgs),
               <<MetaPath("index"), MetaPath("firehose_date_index")>>),
          Decl(i, TypePath("i8", NoArgs), <<>>),
          Decl(i, TypePath("Struct", NoArgs), <<MetaPath("json")>>),
          Decl(i, TypePath("Option", Angle(<<ArgType("Struct")>>)),
               <<MetaPath("json"), MetaStr("rename", <<"extra">>)>>)}

RunItems ==
    {Item(AnalyticsEvent, <<ShemaAttr(StructMetaOrder)>>),
     Item(AnalyticsEvent,
          <<ShemaAttr(<<MetaPath("firehose_parquet_schema"), MetaPath("parquet_code")>>)>>)}

\* the next field of the payload, under SpecRun and SpecSink
ParseRunField ==
    /\ pc = "fields"
    /\ Len(schema.fields) < MaxRunFields
    /\ \E decl \in RunDecls(Len(schema.fields) + 1) : FieldStep(decl)
    /\ UNCHANGED <<item, sink, caseVars, encodeVars, emitVars, runVars>>

\* the values a field of the struct can hold, by its declared type: the strings
\* and the dates are those of the event of the test
\* present: Some(_) or not an Option; serializes: serde_json::to_vec is Ok
FieldValues(field) ==
    LET ident == StripRaw(field.original_name)
        NoDate == [year |-> 0, month |-> 0, day |-> 0]
        Val(present, serializes, text, date) ==
            [present |-> present, serializes |-> serializes, text |-> text, date |-> date]
    IN CASE field.original_type = <<"String">> ->
                {Val(TRUE, TRUE,
                     CASE ident = <<"client_id">> -> <<"id">>
                       [] ident = <<"name">> -> <<"Whatev">>
                       [] OTHER -> <<"test_session">>,
                     NoDate)}
         [] field.original_type = <<"OffsetDateTime">> ->
                {Val(TRUE, TRUE, <<>>,
                     IF ident = <<"client_time">>
                     THEN [year |-> 2020, month |-> 1, day |-> 31]
                     ELSE [year |-> 2025, month |-> 1, day |-> 31])}
         [] field.original_type = <<"i8">> -> {Val(TRUE, TRUE, <<"1">>, NoDate)}
         [] field.original_type = <<"Struct">> ->
                {Val(TRUE, ok, <<"{}">>, NoDate) : ok \in BOOLEAN}
         [] field.original_type = <<"Option", "<", "Struct", ">">> ->
                {Val(FALSE, TRUE, <<>>, NoDate)}
                \cup {Val(TRUE, ok, <<"{}">>, NoDate) : ok \in BOOLEAN}

\* the values of the struct: one value for each declared field
RECURSIVE RecordsOf(_)
RecordsOf(fields) ==
    IF fields = <<>> THEN {<<>>}
    ELSE {<<v>> \o rest : v \in FieldValues(Head(fields)), rest \in RecordsOf(Tail(fields))}

\* the declared fields an identifier names (r#name and name are one identifier)
FieldsNamed(ident) ==
    {i \in DOMAIN schema.fields :
        StripRaw(schema.fields[i].original_name) = StripRaw(ident)}
DeclaredType(ident) == schema.fields[CHOOSE i \in FieldsNamed(ident) : TRUE].original_type
\* rec.<ident>
ValueOf(rec, ident) == rec[CHOOSE i \in FieldsNamed(ident) : TRUE]

\* rustc on the accessor methods: the errors of the generated impl
Diagnostics ==
    LET sig == TextOf(Accessor, {118})
        arrow == CHOOSE i \in DOMAIN sig : sig[i] = " -> "
        \* the return type of partition_keys_ref, element by element
        RefTypes == SplitAt(SubSeq(sig, arrow + 2, Len(sig) - 4), Commas, <<>>)
        IsDate(expr) == expr[Len(expr)] \in {".year()", ".month() as _", ".day()"}
        Declared(expr) == FieldsNamed(ElementIdent(expr)) # {}
        ElementType(expr) ==
            IF expr[Len(expr)] = ".clone()" THEN DeclaredType(ElementIdent(expr))
            ELSE <<"&'_int ">> \o DeclaredType(ElementIdent(expr))
        Mismatched(elems, types) ==
            \E k \in DOMAIN elems :
                /\ Declared(elems[k]) /\ ~IsDate(elems[k])
                /\ k \in DOMAIN types
                /\ ElementType(elems[k]) # types[k]
        \* the types of the tuple core::fmt::Display is implemented for
        DisplayTypes == {<<"i32">>, <<"u8">>, <<"&'_int ", "String">>,
                         <<"&'_int ", "i8">>, <<"&'_int ", "OffsetDateTime">>}
        Elements == {RefElements[k] : k \in DOMAIN RefElements}
                    \cup {OwnedElements[k] : k \in DOMAIN OwnedElements}
    IN IF code.firehose_partition_accessor = None THEN {}
       ELSE (IF \E e \in Elements : ~Declared(e)
             THEN {"E0609: no field on type"} ELSE {})
            \cup (IF \E e \in Elements :
                       /\ IsDate(e) /\ Declared(e)
                       /\ DeclaredType(ElementIdent(e)) # <<"OffsetDateTime">>
                  THEN {"E0599: no method named year"} ELSE {})
            \cup (IF Mismatched(RefElements, RefTypes) \/ Mismatched(OwnedElements, OwnedTypes)
                  THEN {"E0308: mismatched types"} ELSE {})
            \cup (IF \A k \in DOMAIN RefTypes : Head(RefTypes[k]) # "&'_int "
                  THEN {"E0392: lifetime parameter '_int is never used"} ELSE {})
            \cup (IF \E k \in DOMAIN FormatArgs : PositionOf(FormatArgs[k]) >= Len(RefTypes)
                  THEN {"E0609: no field on tuple"} ELSE {})
            \cup (IF \E j, k \in DOMAIN FormatArgs :
                       j # k /\ KeyOf(FormatArgs[j]) = KeyOf(FormatArgs[k])
                  THEN {"duplicate argument named"} ELSE {})
            \cup (IF \E k \in DOMAIN FormatArgs :
                       /\ PositionOf(FormatArgs[k]) < Len(RefTypes)
                       /\ RefTypes[PositionOf(FormatArgs[k]) + 1] \notin DisplayTypes
                  THEN {"E0277: doesn't implement Display"} ELSE {})

\* tests/derive.rs 8-43: the derive's output is compiled with the struct
Compile ==
    /\ pc = "done" /\ code.kind = "impl"
    /\ rpc = "idle"
    /\ compiled' = Some(Diagnostics)
    /\ rpc' = IF Diagnostics = {} THEN "compiled" ELSE "rejected"
    /\ UNCHANGED <<records, prefix, row_group, block, result, deriveVars, caseVars, encodeVars, emitVars>>

\* tests/derive.rs 47-70 and 81: the events
Construct ==
    /\ rpc = "compiled"
    /\ \E n \in 0..MaxRecords : records' \in [1..n -> RecordsOf(schema.fields)]
    /\ rpc' = "constructed"
    /\ UNCHANGED <<compiled, prefix, row_group, block, result, deriveVars, caseVars, encodeVars, emitVars>>

\* a number in decimal, and {:0w} of it
RECURSIVE DigitsOf(_)
DigitsOf(n) ==
    IF n < 10 THEN <<Digits[n + 1]>> ELSE DigitsOf(n \div 10) \o <<Digits[(n % 10) + 1]>>
ZeroPad(digits, width) ==
    [i \in 1..(IF Len(digits) < width THEN width - Len(digits) ELSE 0) |-> "0"] \o digits

RECURSIVE Flatten(_)
Flatten(seqs) == IF seqs = <<>> THEN <<>> ELSE Head(seqs) \o Flatten(Tail(seqs))

\* DisplayImpl(self.partition_keys_ref()) written with fmt: firehose.rs 160-185
DisplayImpl(rec) ==
    LET \* partition_keys_ref(): numbers for year, month and day, text for a key
        Eval(expr) ==
            LET v == ValueOf(rec, ElementIdent(expr))
            IN CASE expr[Len(expr)] = ".year()" -> [num |-> v.date.year, text |-> <<>>]
                 [] expr[Len(expr)] = ".month() as _" -> [num |-> v.date.month, text |-> <<>>]
                 [] expr[Len(expr)] = ".day()" -> [num |-> v.date.day, text |-> <<>>]
                 [] OTHER -> [num |-> 0, text |-> v.text]
        tuple == [k \in DOMAIN RefElements |-> Eval(RefElements[k])]
        \* the named argument of format_args! a placeholder stands for
        Named(name) ==
            tuple[PositionOf(FormatArgs[CHOOSE k \in DOMAIN FormatArgs :
                                            KeyOf(FormatArgs[k]) = name]) + 1]
        Placeholder(tokens) ==
            CASE tokens = <<"{year:04}">> -> ZeroPad(DigitsOf(Named(<<"year">>).num), 4)
              [] tokens = <<"{month:02}">> -> ZeroPad(DigitsOf(Named(<<"month">>).num), 2)
              [] tokens = <<"{day:02}">> -> ZeroPad(DigitsOf(Named(<<"day">>).num), 2)
              [] OTHER -> Named(SubSeq(tokens, 2, Len(tokens) - 1)).text
    IN Flatten([k \in DOMAIN Segments |->
                  LET key == KeyOf(Segments[k])
                  IN key \o <<"=">>
                     \o Placeholder(SubSeq(Segments[k], Len(key) + 2, Len(Segments[k])))
                     \o <<"/">>])

\* tests/derive.rs 72: event.firehose_s3_path_prefix().to_string()
PathPrefix ==
    /\ rpc = "constructed"
    /\ code.firehose_partition_accessor # None
    /\ records # <<>>
    /\ prefix = None
    /\ prefix' = Some(DisplayImpl(records[1]))
    /\ UNCHANGED <<rpc, compiled, records, row_group, block, result, deriveVars, caseVars, encodeVars, emitVars>>

\* ---- write_to_row_group on a row group of schema()
\* tests/derive.rs 86-90: schema(), SerializedFileWriter::new, next_row_group
OpenRowGroup ==
    /\ rpc = "constructed"
    /\ code.RecordWriter # None
    /\ row_group' = [columns |-> SchemaFn.fields, next |-> 0, written |-> <<>>]
    /\ block' = 1
    /\ rpc' = "writing"
    /\ UNCHANGED <<compiled, records, prefix, result, deriveVars, caseVars, encodeVars, emitVars>>

\* row_group_writer.next_column()?: the next column of the schema, if one is left
next_column(rg) ==
    IF rg.next < Len(rg.columns) THEN Some(rg.columns[rg.next + 1]) ELSE None

\* column_writer.untyped(): the variant of ColumnWriter of a physical type
untyped(physical_type) ==
    CASE physical_type = "BOOLEAN" -> "BoolColumnWriter"
      [] physical_type = "INT32" -> "Int32ColumnWriter"
      [] physical_type = "INT64" -> "Int64ColumnWriter"
      [] physical_type = "INT96" -> "Int96ColumnWriter"
      [] physical_type = "FLOAT" -> "FloatColumnWriter"
      [] physical_type = "DOUBLE" -> "DoubleColumnWriter"
      [] physical_type = "BYTE_ARRAY" -> "ByteArrayColumnWriter"

\* the levels saying 1 for every record
LevelsOf_AllPresent(levels, recs) ==
    IF levels.template = 80 THEN Some([r \in DOMAIN recs |-> 1]) ELSE None

\* the definition_levels a block computes: parquet.rs 80-83
LevelsOf(levels, recs) ==
    IF levels.template = 80
    THEN Some([r \in DOMAIN recs |->
                 IF ValueOf(recs[r], levels.field_name).present THEN 1 ELSE 0])
    ELSE None

\* the loop with the values that fail left out
RECURSIVE SerializedVals_SkipFailed(_, _)
SerializedVals_SkipFailed(values, optional) ==
    IF values = <<>> THEN Ok(<<>>)
    ELSE IF (optional /\ ~Head(values).present) \/ ~Head(values).serializes
         THEN SerializedVals_SkipFailed(Tail(values), optional)
         ELSE Ok(<<Head(values)>> \o SerializedVals_SkipFailed(Tail(values), optional).val)

\* the loop over serde_json::to_vec: parquet.rs 185-203
RECURSIVE SerializedVals(_, _)
SerializedVals(values, optional) ==
    IF values = <<>> THEN Ok(<<>>)
    ELSE IF optional /\ ~Head(values).present
         THEN SerializedVals(Tail(values), optional)
         ELSE IF ~Head(values).serializes
              THEN Err("cannot be serialized")
              ELSE LET rest == SerializedVals(Tail(values), optional)
                   IN IF rest.ok THEN Ok(<<Head(values)>> \o rest.val) ELSE rest

\* the vals a block computes, by the format string it was written from
ValsOf(vals, recs) ==
    LET values == [r \in DOMAIN recs |-> ValueOf(recs[r], vals.field_name)]
    IN CASE vals.template \in {89, 102, 114, 126, 138, 150, 162} ->
                Ok(SelectSeq(values, LAMBDA v : v.present))
         [] vals.template \in {93, 105, 117, 129, 141, 153, 171} -> Ok(values)
         [] vals.template = 185 -> SerializedVals(values, TRUE)
         [] vals.template = 196 -> SerializedVals(values, FALSE)

\* typed.write_batch(&vals[..], definition_levels, None): a column that can be
\* null needs the levels, and a value for each level that says one is there
write_batch(column, vals, levels) ==
    IF column.repetition = "::parquet::basic::Repetition::OPTIONAL"
    THEN IF levels = None THEN Err("Definition levels are required")
         ELSE IF Len(SelectSeq(levels[1], LAMBDA l : l = 1)) > Len(vals)
              THEN Err("Expected to write more values")
              ELSE Ok([column |-> column.name, vals |-> vals, levels |-> levels])
    ELSE Ok([column |-> column.name, vals |-> vals, levels |-> None])

\* one block of write_to_row_group: parquet.rs 268-283 with 60-217 in it
WriteBlock ==
    /\ rpc = "writing"
    /\ block <= Len(WriterBlocksOf)
    /\ LET this == WriterBlocksOf[block]
           column_writer == next_column(row_group)
           definition_levels == LevelsOf(this.writer.definition_levels, records)
           vals == ValsOf(this.writer.vals, records)
           batch == write_batch(column_writer[1], vals.val, definition_levels)
           \* the `return Err(..)` the block takes, if it takes one
           failure ==
               IF column_writer = None
               THEN Some([ok |-> FALSE, error |-> "Failed to get '{field_name}' column",
                          column |-> this.field_name, field_type |-> ""])
               ELSE IF ~vals.ok
               THEN Some([ok |-> FALSE,
                          error |-> "Column '{field_name}' cannot be serialized: {error}",
                          column |-> this.writer.vals.field_name, field_type |-> ""])
               ELSE IF untyped(column_writer[1].physical_type) # this.writer.column_writer
               THEN Some([ok |-> FALSE,
                          error |-> "Column '{field_name}' expects {field_type:?} but got another type",
                          column |-> this.writer.field_name,
                          field_type |-> this.writer.field_type])
               ELSE IF ~batch.ok
               THEN Some([ok |-> FALSE, error |-> batch.err, column |-> <<>>,
                          field_type |-> ""])
               ELSE None
           handed == IF column_writer = None THEN row_group
                     ELSE [row_group EXCEPT !.next = @ + 1]
       IN IF failure # None
          THEN /\ result' = failure
               /\ rpc' = "returned"
               /\ row_group' = handed
               /\ UNCHANGED block
          ELSE /\ row_group' = [handed EXCEPT !.written = Append(@, batch.val)]
               /\ block' = block + 1
               /\ UNCHANGED <<rpc, result>>
    /\ UNCHANGED <<compiled, records, prefix, deriveVars, caseVars, encodeVars, emitVars>>

\* parquet.rs 285-290: Ok(()) after the last block
WriteReturn ==
    /\ rpc = "writing"
    /\ block > Len(WriterBlocksOf)
    /\ result' = Some([ok |-> TRUE, error |-> "", column |-> <<>>, field_type |-> ""])
    /\ rpc' = "returned"
    /\ UNCHANGED <<compiled, records, prefix, row_group, block, deriveVars, caseVars, encodeVars, emitVars>>

InitRun == CaseIdle /\ DeriveInit(RunItems) /\ RunIdle /\ EncodeIdle /\ EmitIdle
NextRun ==
    \/ ParseStructAttrs \/ ParseRunField \/ Generate
    \/ Compile \/ Construct \/ PathPrefix
    \/ OpenRowGroup \/ WriteBlock \/ WriteReturn
SpecRun == InitRun /\ [][NextRun]_vars

(***************************************************************************)
(* Properties of the generated methods at run time.                        *)
(***************************************************************************)
\* the index_time_field and the values the keys have in a record
TimeField == index_time_field(schema)

KeySegments(fields, rec) ==
    Flatten([k \in DOMAIN fields |->
               table_field_name(fields[k]) \o <<"=">>
               \o ValueOf(rec, fields[k].original_name).text \o <<"/">>])

\* year=YYYY/month=MM/day=DD/ of the date index field, then <field>=<value>/
ExpectedPrefix(rec) ==
    (IF TimeField = None THEN <<>>
     ELSE LET date == ValueOf(rec, TimeField[1].original_name).date
          IN <<"year", "=">> \o ZeroPad(DigitsOf(date.year), 4) \o <<"/">>
             \o <<"month", "=">> \o ZeroPad(DigitsOf(date.month), 2) \o <<"/">>
             \o <<"day", "=">> \o ZeroPad(DigitsOf(date.day), 2) \o <<"/">>)
    \o KeySegments(KeyFields, rec)

\* C13: for a struct with a date index field, the path prefix of a record is
\* year=YYYY/month=MM/day=DD/ of the calendar date of that field, the year
\* padded with zeros to 4 digits, month and day to 2, then <field>=<value>/
\* for every indexed field that is not the date, under its emitted name.
C13_PathPrefix ==
    (HasPartitionCode /\ DateFields # <<>> /\ rpc # "idle") =>
        /\ rpc # "rejected"
        /\ prefix # None => prefix[1] = ExpectedPrefix(records[1])

\* what a block should hand to write_batch for a column
ExpectedVals(field, recs) ==
    LET values == [r \in DOMAIN recs |-> ValueOf(recs[r], field.original_name)]
    IN IF Carries(field, Optional) THEN SelectSeq(values, LAMBDA v : v.present) ELSE values
ExpectedLevels(field, recs) ==
    IF Carries(field, Optional)
    THEN Some([r \in DOMAIN recs |->
                 IF ValueOf(recs[r], field.original_name).present THEN 1 ELSE 0])
    ELSE None

AllSerialize ==
    \A r \in DOMAIN records : \A i \in DOMAIN records[r] : records[r][i].serializes

\* C17: write_to_row_group has one block for each payload column, in the
\* order of the columns of schema(); the block that runs k-th takes the k-th
\* column, and the variant it expects is the one of the column's physical
\* type; it never returns `Failed to get column`, the type mismatch or an
\* error of write_batch, and when every opaque value serializes it returns
\* Ok with every column written.
C17_WriteSucceeds ==
    rpc \in {"writing", "returned"} =>
        LET columns == row_group.columns
            blocks == WriterBlocksOf
            payload == PayloadFields
        IN /\ Len(blocks) = Len(payload)
           /\ Len(columns) = Len(payload)
           /\ \A k \in DOMAIN blocks :
                 /\ blocks[k].field_name = table_field_name(payload[k])
                 /\ columns[k].name = table_field_name(payload[k])
                 /\ untyped(columns[k].physical_type) = blocks[k].writer.column_writer
           /\ rpc = "writing" =>
                 block = row_group.next + 1 /\ Len(row_group.written) = row_group.next
           /\ result # None =>
                 result[1].error \in {"", "Column '{field_name}' cannot be serialized: {error}"}
           /\ (rpc = "returned" /\ AllSerialize) =>
                 /\ result[1].ok
                 /\ Len(row_group.written) = Len(columns)
                 /\ \A k \in DOMAIN columns :
                       /\ row_group.written[k].column = columns[k].name
                       /\ row_group.written[k].vals = ExpectedVals(payload[k], records)
                       /\ row_group.written[k].levels = ExpectedLevels(payload[k], records)

\* two columns of different physical types written for two records, one of
\* them absent in the second record
C17_Witness ==
    /\ rpc = "returned"
    /\ result[1].ok
    /\ Len(records) = 2
    /\ Len(row_group.written) = 2
    /\ row_group.columns[1].physical_type # row_group.columns[2].physical_type
    /\ row_group.written[2].levels = Some(<<1, 0>>)
    /\ Len(row_group.written[2].vals) = 1

\* the payload columns with a value that is there and does not serialize
FailingColumns ==
    {k \in DOMAIN PayloadFields :
        /\ PayloadFields[k].typ \in {"Array", "Object", "Enum"}
        /\ \E r \in DOMAIN records :
              LET v == ValueOf(records[r], PayloadFields[k].original_name)
              IN v.present /\ ~v.serializes}

\* C18: when a value of an opaque column does not serialize, write_to_row_group
\* returns the error `Column '<field>' cannot be serialized` of the first such
\* column; write_batch is called for the columns before it only, and what
\* write_batch gets for a column is never short of a record's value.
C18_SerializationAborts ==
    rpc \in {"writing", "returned"} =>
        /\ \A k \in DOMAIN row_group.written :
              /\ k \notin FailingColumns
              /\ row_group.written[k].vals = ExpectedVals(PayloadFields[k], records)
        /\ \A k \in FailingColumns : Len(row_group.written) < k
        /\ (rpc = "returned" /\ FailingColumns # {}) =>
              LET first == CHOOSE k \in FailingColumns : \A j \in FailingColumns : k <= j
              IN /\ ~result[1].ok
                 /\ result[1].error = "Column '{field_name}' cannot be serialized: {error}"
                 /\ result[1].column = PayloadFields[first].original_name
                 /\ Len(row_group.written) = first - 1

\* the second record's value of the second column fails after the first
\* column was written and the first record's value was pushed
C18_Witness ==
    /\ rpc = "returned"
    /\ Len(schema.fields) = 2
    /\ Len(records) = 2
    /\ \A i \in DOMAIN records[1] : records[1][i].serializes
    /\ records[1][2].present
    /\ ~records[2][2].serializes
    /\ Len(row_group.written) = 1
    /\ ~result[1].ok
    /\ result[1].column = <<"client_time">>

(***************************************************************************)
(* from_struct writing to a sink that fails (src/lib.rs 421-475).          *)
(***************************************************************************)
\* the writes of the requested emitters at which the sink can fail: a write
\* of the accessor by its position, the first write of the others
SinkFaults(sch) ==
    {[emitter |-> "generate_firehose_schema", write |-> 1] :
        x \in {o \in {"requested"} : sch.outputs.firehose_schema}}
    \cup {[emitter |-> "generate_firehose_partition_accessor", write |-> k] :
            k \in IF sch.outputs.firehose_partition_code
                  THEN DOMAIN generate_firehose_partition_accessor(sch, index_time_field(sch))
                  ELSE {}}
    \cup {[emitter |-> "generate_parquet_schema", write |-> 1] :
            x \in {o \in {"requested"} : sch.outputs.firehose_parquet_schema}}
    \cup {[emitter |-> "generate_parquet_writer_interface_code", write |-> 1] :
            x \in {o \in {"requested"} : sch.outputs.parquet_code}}

\* code.parse(): the text lexes into a token stream when every delimiter is
\* closed by its own kind and no string literal is left open.  The lexer after
\* one more token: the open delimiters, inside a string literal or not, failed
LexToken(lexer, t) ==
    IF t = "\"" THEN [lexer EXCEPT !.in_string = ~@]
    ELSE IF lexer.in_string THEN lexer
    ELSE IF t \in {"(", "{"} THEN [lexer EXCEPT !.open = <<t>> \o @]
    ELSE IF t \in {")", "}"}
         THEN IF lexer.open # <<>> /\ Head(lexer.open) = (IF t = ")" THEN "(" ELSE "{")
              THEN [lexer EXCEPT !.open = Tail(@)]
              ELSE [lexer EXCEPT !.failed = TRUE]
    ELSE lexer

RECURSIVE LexTokens(_, _)
LexTokens(lexer, tokens) ==
    IF tokens = <<>> THEN lexer
    ELSE LET next == LexToken(lexer, Head(tokens))
         IN IF next.failed THEN next ELSE LexTokens(next, Tail(tokens))

RECURSIVE LexWrites(_, _)
LexWrites(lexer, writes) ==
    IF writes = <<>> THEN lexer
    ELSE LET next == LexTokens(lexer, Head(writes).text)
         IN IF next.failed THEN next ELSE LexWrites(next, Tail(writes))

Lexes(writes) ==
    LET end == LexWrites([open |-> <<>>, in_string |-> FALSE, failed |-> FALSE], writes)
    IN ~end.failed /\ end.open = <<>> /\ ~end.in_string

\* a panic of the macro
Panic(message) == [kind |-> "panic", error |-> <<message>>]

\* lib.rs 421-475 when the write `fault` fails: the emitters under expect()
\* panic; the accessor returns the error to `let _ =` with the text before the
\* failed write left in `code`, and the generation goes on to code.parse()
GenerateOnSink ==
    /\ pc = "fields"
    /\ \E fault \in SinkFaults(schema) :
          /\ sink' = Some(fault)
          /\ IF fault.emitter = "generate_firehose_schema"
             THEN pc' = "panic" /\ code' = Panic("to generate firehose schema")
             ELSE IF fault.emitter = "generate_parquet_schema"
             THEN pc' = "panic" /\ code' = Panic("to generate parquet schema")
             ELSE IF fault.emitter = "generate_parquet_writer_interface_code"
             THEN pc' = "panic" /\ code' = Panic("to generate parquet code")
             ELSE LET whole == generate_firehose_partition_accessor(schema, index_time_field(schema))
                      written == SubSeq(whole, 1, fault.write - 1)
                  IN IF Lexes(written)
                     THEN /\ pc' = "done"
                          /\ code' = [GeneratedCode(schema) EXCEPT
                                         !.firehose_partition_accessor = Some(written)]
                     ELSE pc' = "panic" /\ code' = Panic("valid code")
    /\ UNCHANGED <<item, schema, caseVars, encodeVars, emitVars, runVars>>

InitSink == CaseIdle /\ DeriveInit(RunItems) /\ RunIdle /\ EncodeIdle /\ EmitIdle
NextSink == ParseStructAttrs \/ ParseRunField \/ GenerateOnSink
SpecSink == InitSink /\ [][NextSink]_vars

is_lowercase(ch) == \E i \in DOMAIN LowerChars : LowerChars[i] = ch

\* the number of characters of `input` the converter has consumed
Consumed == Len(input) - Len(chars)

\* the characters consumed last are a run of at least two uppercase letters
AfterRun ==
    /\ cpc = "loop"
    /\ Consumed >= 2
    /\ is_uppercase(input[Consumed])
    /\ is_uppercase(input[Consumed - 1])

\* C21: after a run of at least two uppercase letters, a lowercase letter
\* moves the run's last letter behind a new separator; a digit or the
\* separator is appended with no separator inserted inside the run, and the
\* end of the input leaves the output as it is.
C21_RunSplit ==
    [][AfterRun =>
          IF chars = <<>>
          THEN output' = output
          ELSE LET ch == Head(chars)
               IN /\ is_lowercase(ch) =>
                        output' = SubSeq(output, 1, Len(output) - 1)
                                      \o <<Sep, output[Len(output)], ch>>
                  /\ (~is_uppercase(ch) /\ ~is_lowercase(ch)) =>
                        output' = Append(output, ch)]_vars

\* the part of C21 the converter keeps: a lowercase letter splits the run
\* and the end of the input does not
C21_LowercaseSplits ==
    [][AfterRun =>
          IF chars = <<>>
          THEN output' = output
          ELSE is_lowercase(Head(chars)) =>
                  output' = SubSeq(output, 1, Len(output) - 1)
                                \o <<Sep, output[Len(output)], Head(chars)>>]_vars

HasDoubleSep(s) == \E i \in 1..(Len(s) - 1) : s[i] = Sep /\ s[i + 1] = Sep

\* C22: the output has two adjacent separators only where the input has.
C22_NoDoubledSeparator ==
    Returned => (HasDoubleSep(output) => HasDoubleSep(input))

\* the same for the inputs that do not start with the separator
C22_InsideInput ==
    (Returned /\ input # <<>> /\ input[1] # Sep) =>
        (HasDoubleSep(output) => HasDoubleSep(input))

(***************************************************************************)
(* C23: the arrays a block builds for write_batch.                         *)
(***************************************************************************)
\* the values of a column in the records, in record order
ColumnValues(field) ==
    [r \in DOMAIN records |-> ValueOf(records[r], field.original_name)]

\* C23: for every payload column and the batch of n records, the block of an
\* Optional field builds definition levels of length n, 1 where the record's
\* value is present and 0 where it is absent, and vals holding the present
\* values in record order, as many as there are 1s; the block of a required
\* field builds no definition levels and vals of length n; write_batch gets
\* these arrays.
C23_LevelsAndVals ==
    rpc \in {"writing", "returned"} =>
        \A k \in DOMAIN WriterBlocksOf :
            LET field == PayloadFields[k]
                n == Len(records)
                values == ColumnValues(field)
                definition_levels ==
                    LevelsOf(WriterBlocksOf[k].writer.definition_levels, records)
                vals == ValsOf(WriterBlocksOf[k].writer.vals, records)
            IN /\ IF Carries(field, Optional)
                  THEN /\ definition_levels # None
                       /\ Len(definition_levels[1]) = n
                       /\ \A r \in 1..n :
                             definition_levels[1][r] = IF values[r].present THEN 1 ELSE 0
                       /\ vals.ok =>
                             /\ vals.val = SelectSeq(values, LAMBDA v : v.present)
                             /\ Len(vals.val) =
                                   Cardinality({r \in 1..n : definition_levels[1][r] = 1})
                  ELSE /\ definition_levels = None
                       /\ vals.ok => (vals.val = values /\ Len(vals.val) = n)
               /\ k \in DOMAIN row_group.written =>
                     /\ row_group.written[k].levels = definition_levels
                     /\ row_group.written[k].vals = vals.val

\* a required column and an Optional column written for two records, the
\* Optional one absent in the first record
C23_Witness ==
    /\ rpc = "returned"
    /\ Len(records) = 2
    /\ Len(PayloadFields) = 2
    /\ ~Carries(PayloadFields[1], Optional)
    /\ Carries(PayloadFields[2], Optional)
    /\ Len(row_group.written) = 2
    /\ row_group.written[1].levels = None
    /\ Len(row_group.written[1].vals) = 2
    /\ row_group.written[2].levels = Some(<<0, 1>>)
    /\ Len(row_group.written[2].vals) = 1

(***************************************************************************)
(* ENCODE_HIVE_INT96_TIMESTAMP (src/parquet.rs 63-77) on one value.        *)
(* An integer wider than TLC's is kept as its base-256 digits, the least   *)
(* significant first; a u32 and a u64 are 4 and 8 such digits.             *)
(***************************************************************************)
\* digits + carry, the width kept (wrapping)
RECURSIVE AddCarry(_, _)
AddCarry(digits, carry) ==
    IF digits = <<>> THEN <<>>
    ELSE <<(Head(digits) + carry) % 256>>
         \o AddCarry(Tail(digits), (Head(digits) + carry) \div 256)

\* digits * m + carry for a small m, the width kept (wrapping)
RECURSIVE MulCarry(_, _, _)
MulCarry(digits, m, carry) ==
    IF digits = <<>> THEN <<>>
    ELSE <<(Head(digits) * m + carry) % 256>>
         \o MulCarry(Tail(digits), m, (Head(digits) * m + carry) \div 256)

Reverse(seq) == [i \in DOMAIN seq |-> seq[Len(seq) + 1 - i]]

\* the OffsetDateTime values encoded: the local time of day and the Julian
\* day of the local date; 2458880 is 2020-01-31, -1930999 and 5373484 are
\* the first and the last day `time` has
JulianDays == {-1930999, 0, 2458880, 5373484}
TimestampValues ==
    [julian_day : JulianDays, hour : {0, 1, 23}, minute : {0, 59},
     second : {0, 59}, nanosecond : {0, 1, 999999999}]

\* `as u32` of an i32: the same 32 bits
as_u32(n) ==
    IF n >= 0 THEN AddCarry(<<0, 0, 0, 0>>, n)
    ELSE [i \in 1..4 |-> 255 - AddCarry(<<0, 0, 0, 0>>, (-n) - 1)[i]]

\* time::Duration::hours, minutes, seconds, nanoseconds and their sum
Duration(seconds, nanoseconds) == [seconds |-> seconds, nanoseconds |-> nanoseconds]
DurationSum(a, b) ==
    Duration(a.seconds + b.seconds + (a.nanoseconds + b.nanoseconds) \div 1000000000,
             (a.nanoseconds + b.nanoseconds) % 1000000000)

\* Duration::whole_nanoseconds: seconds * 10^9 + nanoseconds as an i128
whole_nanoseconds(time) ==
    LET seconds == AddCarry([i \in 1..16 |-> 0], time.seconds)
        thousand(d) == MulCarry(d, 1000, 0)
    IN AddCarry(thousand(thousand(thousand(seconds))), time.nanoseconds)

\* `as u64` of an i128 that is not negative: the low 64 bits
as_u64(n) == SubSeq(n, 1, 8)

\* u64::to_le_bytes: the bytes, the least significant first
to_le_bytes(n) == n

\* u32::from_ne_bytes: the bytes are read in the byte order of the target
from_ne_bytes(bytes, tgt) == IF tgt = "little" THEN bytes ELSE Reverse(bytes)

\* to_le keeping the value on every target
to_le_Native(n, tgt) == n

\* u32::to_le: the value on a little-endian target, its bytes swapped on a
\* big-endian one
to_le(n, tgt) == IF tgt = "little" THEN n ELSE Reverse(n)

\* parquet.rs 64-75: the three u32 handed to Int96::set_data
ENCODE_HIVE_INT96_TIMESTAMP(rec, tgt) ==
    LET julian_day == as_u32(rec.julian_day)
        time == DurationSum(DurationSum(DurationSum(Duration(rec.hour * 3600, 0),
                                                    Duration(rec.minute * 60, 0)),
                                        Duration(rec.second, 0)),
                            Duration(0, rec.nanosecond))
        time_nanos == to_le_bytes(as_u64(whole_nanoseconds(time)))
    IN <<from_ne_bytes(SubSeq(time_nanos, 1, 4), tgt),
         from_ne_bytes(SubSeq(time_nanos, 5, 8), tgt),
         to_le(julian_day, tgt)>>

\* parquet.rs 63-77: one value is encoded and pushed to `vals`
EncodeTimestamp ==
    /\ record # None
    /\ timestamp = None
    /\ timestamp' = Some(ENCODE_HIVE_INT96_TIMESTAMP(record[1], target))
    /\ UNCHANGED <<target, record, caseVars, deriveVars, runVars, emitVars>>

InitEncode ==
    /\ CaseIdle /\ DeriveIdle /\ RunIdle /\ EmitIdle
    /\ target \in {"little", "big"}
    /\ record \in {Some(v) : v \in TimestampValues}
    /\ timestamp = None
NextEncode == EncodeTimestamp
SpecEncode == InitEncode /\ [][NextEncode]_vars

(***************************************************************************)
(* C24: the INT96 encoding of a timestamp.  The numbers of the claim are   *)
(* computed in base 65536, a 64-bit number being four such digits.         *)
(***************************************************************************)
Limbs(n) == <<n % 65536, n \div 65536, 0, 0>>

RECURSIVE LimbsTimes(_, _, _)
LimbsTimes(limbs, m, carry) ==
    IF limbs = <<>> THEN <<>>
    ELSE <<(Head(limbs) * m + carry) % 65536>>
         \o LimbsTimes(Tail(limbs), m, (Head(limbs) * m + carry) \div 65536)

RECURSIVE LimbsSum(_, _, _)
LimbsSum(a, b, carry) ==
    IF a = <<>> THEN <<>>
    ELSE <<(Head(a) + Head(b) + carry) % 65536>>
         \o LimbsSum(Tail(a), Tail(b), (Head(a) + Head(b) + carry) \div 65536)

\* n * 10^9
Giga(n) == LimbsTimes(LimbsTimes(LimbsTimes(Limbs(n), 1000, 0), 1000, 0), 1000, 0)

\* a < b, both of four digits
LimbsLess(a, b) ==
    \E i \in 1..4 : a[i] < b[i] /\ \A j \in (i + 1)..4 : a[j] = b[j]

\* hour*3600*10^9 + minute*60*10^9 + second*10^9 + nanosecond
NanosOf(rec) ==
    LimbsSum(LimbsSum(LimbsSum(Giga(rec.hour * 3600), Giga(rec.minute * 60), 0),
                      Giga(rec.second), 0),
             Limbs(rec.nanosecond), 0)

\* the 32-bit number four bytes hold, the least significant byte first
LittleEndian32(bytes) == <<bytes[1] + 256 * bytes[2], bytes[3] + 256 * bytes[4]>>

\* the 12 bytes of the Int96 in memory, which are the bytes Parquet stores:
\* each u32 lies in the byte order of the target
Int96Bytes(int96, tgt) ==
    LET native(n) == IF tgt = "little" THEN n ELSE Reverse(n)
    IN native(int96[1]) \o native(int96[2]) \o native(int96[3])

\* C24: the INT96 encoding of a timestamp is three 32-bit words, stored the
\* least significant byte first: low32 = nanos mod 2^32, high32 = nanos div
\* 2^32 and the Julian day as a u32, where nanos = hour*3600*10^9 +
\* minute*60*10^9 + second*10^9 + nanosecond is less than 86400*10^9; on a
\* little-endian target the three u32 of the Int96 are these numbers.
C24_Int96Encoding ==
    timestamp # None =>
        LET rec == record[1]
            nanos == NanosOf(rec)
            low32 == <<nanos[1], nanos[2]>>
            high32 == <<nanos[3], nanos[4]>>
            julian_day == <<rec.julian_day % 65536, (rec.julian_day \div 65536) % 65536>>
            bytes == Int96Bytes(timestamp[1], target)
        IN /\ LimbsLess(nanos, Giga(86400))
           /\ Len(bytes) = 12
           /\ LittleEndian32(SubSeq(bytes, 1, 4)) = low32
           /\ LittleEndian32(SubSeq(bytes, 5, 8)) = high32
           /\ LittleEndian32(SubSeq(bytes, 9, 12)) = julian_day
           /\ target = "little" =>
                 /\ LittleEndian32(timestamp[1][1]) = low32
                 /\ LittleEndian32(timestamp[1][2]) = high32
                 /\ LittleEndian32(timestamp[1][3]) = julian_day

\* the last nanosecond of 2020-01-31 encoded on a big-endian target:
\* 86399999999999 = 20116 * 2^32 + 2437873663, the day is 2458880
C24_Witness ==
    /\ timestamp # None
    /\ target = "big"
    /\ record[1] = [julian_day |-> 2458880, hour |-> 23, minute |-> 59,
                    second |-> 59, nanosecond |-> 999999999]
    /\ Int96Bytes(timestamp[1], target)
          = <<255, 255, 78, 145, 148, 78, 0, 0, 0, 133, 37, 0>>

(***************************************************************************)
(* write_to_row_group on a row group that was not made from schema(): the  *)
(* method is public and takes the row group writer the caller hands it.    *)
(***************************************************************************)
\* the physical types the columns of the test's struct have
ForeignTypes == {"INT32", "INT96", "BYTE_ARRAY"}

\* the row group of a file whose schema has the columns of schema(), one of
\* them with a physical type of the file's own
OpenForeignRowGroup ==
    /\ rpc = "constructed"
    /\ code.RecordWriter # None
    /\ \E k \in DOMAIN SchemaFn.fields :
          \E other \in ForeignTypes :
             row_group' = [columns |-> [SchemaFn.fields EXCEPT ![k].physical_type = other],
                           next |-> 0, written |-> <<>>]
    /\ block' = 1
    /\ rpc' = "writing"
    /\ UNCHANGED <<compiled, records, prefix, result, deriveVars, caseVars,
                   encodeVars, emitVars>>

NextForeign ==
    \/ ParseStructAttrs \/ ParseRunField \/ Generate
    \/ Compile \/ Construct
    \/ OpenForeignRowGroup \/ WriteBlock \/ WriteReturn
SpecForeign == InitRun /\ [][NextForeign]_vars

(***************************************************************************)
(* C25: the guard of a writer block.                                       *)
(***************************************************************************)
\* the blocks whose column writer is not the variant the block expects
Mismatched ==
    {k \in DOMAIN WriterBlocksOf :
        untyped(row_group.columns[k].physical_type) # WriterBlocksOf[k].writer.column_writer}

\* the texts that fill the holes of the message of an error
MessageArguments(error) == {error.column, <<error.field_type>>}

\* C25: when the column writer handed out for a column is not the variant
\* the field's type expects, write_batch is not called for the column and
\* write_to_row_group fails with an error that names the column, the
\* expected type and the type of the writer that was handed out.
C25_MismatchReported ==
    (rpc = "returned" /\ Mismatched # {}) =>
        LET k == CHOOSE k \in Mismatched : TRUE
            column == row_group.columns[k]
        IN (\A j \in FailingColumns : j > k) =>
              /\ Len(row_group.written) = k - 1
              /\ ~result[1].ok
              /\ column.name \in MessageArguments(result[1])
              /\ <<PayloadFields[k].typ>> \in MessageArguments(result[1])
              /\ \/ <<untyped(column.physical_type)>> \in MessageArguments(result[1])
                 \/ <<column.physical_type>> \in MessageArguments(result[1])

\* what the guard does: no write_batch for the column, and the error of
\* parquet.rs 214 with the name of the struct's field and the expected type,
\* unless a value of the column did not serialize before the guard was reached
C25_GuardedWrite ==
    (rpc = "returned" /\ Mismatched # {}) =>
        LET k == CHOOSE k \in Mismatched : TRUE
        IN (\A j \in FailingColumns : j >= k) =>
              /\ Len(row_group.written) = k - 1
              /\ ~result[1].ok
              /\ IF k \in FailingColumns
                 THEN result[1].error = "Column '{field_name}' cannot be serialized: {error}"
                 ELSE /\ result[1].error =
                            "Column '{field_name}' expects {field_type:?} but got another type"
                      /\ result[1].column = PayloadFields[k].original_name
                      /\ result[1].field_type = PayloadFields[k].typ

(***************************************************************************)
(* generate_parquet_schema (src/parquet.rs 29-56) and                      *)
(* generate_firehose_schema (src/firehose.rs 49-100) on a sink that can    *)
(* fail: the operations the sink sees, one at a time.                      *)
(***************************************************************************)
\* parquet.rs 33-51: the writes of one iteration, each with its source line
ParquetFieldWrites(field) ==
    IF /\ is_type_flag(field.typ_flags, Index)
       /\ ~is_type_flag(field.typ_flags, FirehoseDateIndex)
    THEN <<>>
    ELSE <<Write(39, <<PARQUET_TAB>>),
           IF is_type_flag(field.typ_flags, Optional)
           THEN Write(41, <<"OPTIONAL ">>) ELSE Write(44, <<"REQUIRED ">>),
           Write(46, <<aws_firehose_parquet(field.typ), " ">> \o table_field_name(field))>>
         \o (IF is_aws_firehose_parquet_utf8_converted(field.typ)
             THEN <<Write(48, <<" (UTF8)">>)>> ELSE <<>>)
         \o <<Write(51, <<";\n">>)>>

\* parquet.rs 30-54: the writes of generate_parquet_schema before its flush
RECURSIVE ParquetFieldsWrites(_)
ParquetFieldsWrites(fields) ==
    IF fields = <<>> THEN <<>>
    ELSE ParquetFieldWrites(Head(fields)) \o ParquetFieldsWrites(Tail(fields))
ParquetSchemaWrites(sch) ==
    <<Write(30, <<"message ">> \o lower_cased_table_name(sch) \o <<" {\n">>)>>
    \o ParquetFieldsWrites(sch.fields)
    \o <<Write(54, <<"}">>)>>

\* firehose.rs 98: serde_json writes the document piece by piece: the name,
\* then every partition key, then every column
FirehoseSchemaWrites(sch) ==
    LET document == generate_firehose_schema(sch, index_time_field(sch))
    IN <<Write(98, <<"name", document.name>>)>>
       \o [i \in DOMAIN document.partition_keys |->
             Write(98, <<"partition_keys", document.partition_keys[i]>>)]
       \o [i \in DOMAIN document.columns |->
             Write(98, <<"columns", document.columns[i]>>)]

\* the writes an emitter makes on a schema, and the source line of its flush
WritesOf(name, sch) ==
    IF name = "generate_parquet_schema" THEN ParquetSchemaWrites(sch)
    ELSE FirehoseSchemaWrites(sch)
FlushLine(name) == IF name = "generate_parquet_schema" THEN 55 ELSE 99

\* an emitter that goes on whatever the sink answered
Continues_Unchecked(seen) == TRUE

\* the `?` after a write: the emitter goes on when the operation before was Ok
Continues(seen) == IF seen = <<>> THEN TRUE ELSE seen[Len(seen)].ok

\* lib.rs 434-440, 451-455: from_struct calls a schema emitter that was asked for
CallEmitter ==
    /\ pc = "fields"
    /\ emitter = None
    /\ \E name \in {"generate_firehose_schema", "generate_parquet_schema"} :
          /\ name = "generate_firehose_schema" => schema.outputs.firehose_schema
          /\ name = "generate_parquet_schema" => schema.outputs.firehose_parquet_schema
          /\ emitter' = Some(name)
          /\ pending' = WritesOf(name, schema)
    /\ pc' = "emit"
    /\ UNCHANGED <<item, schema, code, sink, ops, returned, caseVars, runVars, encodeVars>>

\* one write!, writeln!, write_all or write of serde_json: the sink answers
\* Ok or an error
SinkWrite ==
    /\ emitter # None
    /\ returned = None
    /\ pending # <<>>
    /\ Continues(ops)
    /\ \E ok \in BOOLEAN :
          ops' = Append(ops, [op |-> "write", line |-> Head(pending).line,
                              text |-> Head(pending).text, ok |-> ok])
    /\ pending' = Tail(pending)
    /\ UNCHANGED <<emitter, returned, deriveVars, caseVars, runVars, encodeVars>>

\* the `?` after a failed write returns the error: generate_parquet_schema
\* the io::Error as it is, generate_firehose_schema the serde_json::Error
\* inside io::Error::other (firehose.rs 98)
ReturnWriteError ==
    /\ emitter # None
    /\ returned = None
    /\ ops # <<>>
    /\ ops[Len(ops)].op = "write"
    /\ ~ops[Len(ops)].ok
    /\ returned' = Some(Err([failed |-> Len(ops),
                             other |-> emitter[1] = "generate_firehose_schema"]))
    /\ UNCHANGED <<emitter, pending, ops, deriveVars, caseVars, runVars, encodeVars>>

\* out.flush() after the last write: parquet.rs 55, firehose.rs 99
SinkFlush ==
    /\ emitter # None
    /\ returned = None
    /\ pending = <<>>
    /\ ops # <<>>
    /\ ops[Len(ops)].op = "write"
    /\ Continues(ops)
    /\ \E ok \in BOOLEAN :
          ops' = Append(ops, [op |-> "flush", line |-> FlushLine(emitter[1]),
                              text |-> <<>>, ok |-> ok])
    /\ UNCHANGED <<emitter, pending, returned, deriveVars, caseVars, runVars, encodeVars>>

\* the emitter returns what flush returned
ReturnFlush ==
    /\ emitter # None
    /\ returned = None
    /\ ops # <<>>
    /\ ops[Len(ops)].op = "flush"
    /\ returned' = Some(IF ops[Len(ops)].ok THEN Ok(<<>>)
                        ELSE Err([failed |-> Len(ops), other |-> FALSE]))
    /\ UNCHANGED <<emitter, pending, ops, deriveVars, caseVars, runVars, encodeVars>>

InitEmit == CaseIdle /\ DeriveInit(RunItems) /\ RunIdle /\ EncodeIdle /\ EmitIdle
NextEmit ==
    \/ ParseStructAttrs \/ ParseRunField
    \/ CallEmitter \/ SinkWrite \/ ReturnWriteError \/ SinkFlush \/ ReturnFlush
SpecEmit == InitEmit /\ [][NextEmit]_vars

(***************************************************************************)
(* C26: the operations of a schema emitter on the sink.                    *)
(***************************************************************************)
\* C26: the sink sees the emitter's writes one after the other in their
\* order and then one flush; an operation that failed is the last the sink
\* sees; when the emitter returns Ok, flush was the last operation and all
\* the text was written before it; when an operation failed the emitter
\* returns the error of that operation (generate_firehose_schema returns
\* the error of a write inside io::Error::other).
C26_WritesThenFlush ==
    emitter # None =>
        LET writes == WritesOf(emitter[1], schema)
            last == Len(ops)
        IN /\ last <= Len(writes) + 1
           /\ \A i \in DOMAIN ops :
                 /\ ~ops[i].ok => i = last
                 /\ IF i <= Len(writes)
                    THEN /\ ops[i].op = "write"
                         /\ ops[i].line = writes[i].line
                         /\ ops[i].text = writes[i].text
                    ELSE ops[i].op = "flush"
           /\ returned # None =>
                 IF returned[1].ok
                 THEN /\ last = Len(writes) + 1
                      /\ ops[last].op = "flush"
                      /\ \A i \in DOMAIN ops : ops[i].ok
                      /\ emitter[1] = "generate_parquet_schema" =>
                            Texts(SubSeq(ops, 1, last - 1)) = generate_parquet_schema(schema)
                 ELSE /\ ~ops[last].ok
                      /\ returned[1].err.failed = last

\* generate_parquet_schema returned Ok for a struct of two columns: the sink
\* saw the closing brace and then the flush
C26_Witness ==
    /\ emitter # None
    /\ returned # None
    /\ Len(schema.fields) = 2
    /\ emitter[1] = "generate_parquet_schema"
    /\ returned[1].ok
    /\ Len(ops) > 8
    /\ ops[Len(ops)].op = "flush"
    /\ ops[Len(ops) - 1].text = <<"}">>

====
